---- MODULE Spec2Model ----
(***************************************************************************)
(* TimeSeriesAnalyzer of src/public/python/time_series.py as a state       *)
(* machine.  The state is the analyzer's three fields (data, time_column,  *)
(* value_columns) together with the last call made on it and what that     *)
(* call handed back to its caller (a returned dict, or a raised            *)
(* exception).                                                             *)
(*                                                                         *)
(* A table (pandas DataFrame) is a record                                  *)
(*   columns : the column labels in table order                            *)
(*   dtype   : label -> "datetime" | "number" | "real" | "text"            *)
(*             ("number" is an integer column, "real" a float column)      *)
(*   nrows   : number of rows                                              *)
(*   cells   : label -> sequence of cells, one per row                     *)
(*   tie_rank, float_ties : what the build's sort and the double           *)
(*             arithmetic settle on this table (see MkTable)               *)
(*   unit    : the float columns hold multiples of 1/unit                  *)
(* A cell is <<>> when missing (NaN / NaT / None) and <<v>> otherwise; v   *)
(* is an integer for datetime columns (a day number) and for number        *)
(* columns, a string for text columns, and for real columns the integer v  *)
(* of the float v/unit: a whole number on the tables of unit 1, a number   *)
(* of tenths such as 0.1 on the tables of unit 10.                         *)
(*                                                                         *)
(* A caught exception's message str(e) is modelled by the name of the      *)
(* exception class.                                                        *)
(*                                                                         *)
(* Eight specifications share the state:                                   *)
(*   Spec         every operation on the provider's tables, each result    *)
(*                without the numbers the code computes in floating point  *)
(*   SeriesSpec   trend_analysis, forecasting and _autocorrelation on      *)
(*                short series of integers and of floats, with the numbers *)
(*                of the results                                           *)
(*   SeasonSpec   seasonal_analysis, decomposition and                     *)
(*                _detect_seasonal_period on longer series of integers and *)
(*                of floats, with the numbers of the results               *)
(*   ClassifySpec set_data on small tables of every column order           *)
(*   PrepSpec     the series preparation on tables of text dates           *)
(*   DetectSpec   _detect_seasonal_period on short 0/1 series              *)
(*   TrendSpec    trend_analysis on 0/1 series                             *)
(*   RaceSpec     set_data, statement by statement, interleaved with       *)
(*                trend_analysis, read by read                             *)
(* The numbers are exact fractions where the code computes in floating     *)
(* point.  Where the rounding of the doubles decides an outcome (a         *)
(* comparison on an exact tie of the fractions, a whole number cut from a  *)
(* double that fell short of it, a divisor that is 0 as a fraction, the    *)
(* mean of equal values that is not their value) the model follows the     *)
(* doubles: by the table's float_ties, and for the exponential smoothing   *)
(* by the rounding itself (SmoothInt).  A series comes with one table for  *)
(* every value its float_ties may have (FloatOutcomes): one for most       *)
(* series, several where the build of np.convolve decides or where the     *)
(* doubles of the series are not listed.                                   *)
(***************************************************************************)
EXTENDS Integers, Sequences, FiniteSets, TLC

VARIABLES data, time_column, value_columns, call, result

vars == <<data, time_column, value_columns, call, result>>

(***************************************************************************)
(* Bounds of the model.                                                    *)
(***************************************************************************)
MaxRows == 14
MaxHorizon == 2
SmallRows == 2

(***************************************************************************)
(* Python values.                                                          *)
(***************************************************************************)
\* None where a column label is expected (time_column, column arguments).
None == "None"
\* None where a list of column labels is expected (value_columns argument).
NoneList == <<None>>
\* None / an integer where an optional integer is expected (period).
NoInt == <<>>
\* self.data before any table is supplied (data: pd.DataFrame = None).
NoTable == [isNone |-> TRUE]

Missing == <<>>
IsNull(cell) == cell = Missing
Val(cell) == cell[1]

Range(s) == {s[i] : i \in 1..Len(s)}

\* Python truthiness of an optional string and of an optional list.
TruthyStr(x) == x # None /\ x # ""
TruthyList(x) == x # NoneList /\ x # <<>>

Min2(x, y) == IF x < y THEN x ELSE y

(***************************************************************************)
(* Text cells.  pd.to_datetime parses a string or raises; ParseDate gives  *)
(* the day number a string denotes, <<>> when it is no date.  LexRank is   *)
(* the position of a string in Python's string order, which is the order   *)
(* sort_values uses on a text column.                                      *)
(***************************************************************************)
ParseDate(s) ==
    CASE s = "2024-01-02" -> <<2>>
      [] s = "2024-01-10" -> <<10>>
      [] s = "1/10/2024"  -> <<10>>
      [] s = "1/2/2024"   -> <<2>>
      [] s = "1/3/2024"   -> <<3>>
      [] OTHER -> <<>>

\* the names of the text cells, in Python's string order
Names ==
    <<"alice", "bob", "carol", "dave", "erin", "frank", "grace", "heidi",
      "ivan", "judy", "kim", "leo", "mia", "nina", "oscar", "peggy">>

LexRank(s) ==
    CASE s = "1/10/2024"  -> 1
      [] s = "1/2/2024"   -> 2
      [] s = "1/3/2024"   -> 3
      [] s = "2024-01-02" -> 4
      [] s = "2024-01-10" -> 5
      [] s \in Range(Names) -> 5 + (CHOOSE k \in 1..Len(Names) : Names[k] = s)
      [] OTHER -> 6 + Len(Names)

(***************************************************************************)
(* The tables the table provider supplies.  Four families; the first two   *)
(* of every row count 0..MaxRows, the last two of 0..SmallRows rows.  The  *)
(* name column holds a different name on every row:                        *)
(*   "ramp"  date, a, b, name : ascending dates, a = 10 + 2*row, b present *)
(*           on its first row only                                         *)
(*   "gappy" name, date, a, b : descending dates, the first row without a  *)
(*           date, the second without a value of a, a alternating 5 / 9,   *)
(*           b present on its first three rows                             *)
(*   "nodate" name, a         : no datetime column                         *)
(*   "text"  name             : a text column only                         *)
(***************************************************************************)
TableKinds == {"ramp", "gappy", "nodate", "text"}

KindColumns(kind) ==
    CASE kind = "ramp"   -> <<"date", "a", "b", "name">>
      [] kind = "gappy"  -> <<"name", "date", "a", "b">>
      [] kind = "nodate" -> <<"name", "a">>
      [] OTHER           -> <<"name">>

ColumnDType(c) ==
    CASE c = "date" -> "datetime"
      [] c \in {"a", "b"} -> "number"
      [] c = "x" -> "real"
      [] OTHER -> "text"

KindCell(kind, n, c, i) ==
    CASE c = "date" /\ kind = "ramp"  -> <<i>>
      [] c = "date" /\ kind = "gappy" -> IF i = 1 THEN Missing ELSE <<n + 1 - i>>
      [] c = "a" /\ kind = "gappy"    ->
            IF i = 2 THEN Missing ELSE IF i % 2 = 1 THEN <<5>> ELSE <<9>>
      [] c = "a"                      -> <<10 + 2 * i>>
      [] c = "b" /\ kind = "ramp"     -> IF i = 1 THEN <<7>> ELSE Missing
      [] c = "b"                      -> IF i <= 3 THEN <<i>> ELSE Missing
      [] OTHER -> <<Names[((i - 1) % Len(Names)) + 1]>>

\* Two things the exact model of a table cannot compute are carried with
\* it, as the build and the double arithmetic settle them:
\*   tie_rank    the order sort_values leaves rows of equal key in
\*   float_ties  what the doubles do where the fractions of the series of
\*               the table tie: <<"period", p>> when avg_seasonal_var <
\*               total_var * 0.8 holds for candidate p, <<"lag", L>> when
\*               autocorr > 0.3 holds at lag L, <<"lag_up", L>> or
\*               <<"lag_down", L>> for two equal autocorrelations at L
\*               and L + 1 whose doubles differ, <<"strength", percent>>
\*               and <<"ratio", p>> for the two strength labels, the
\*               rounding noise of the decomposition (phase_short,
\*               phase_over, trend_above, trend_below), and on equal
\*               values that are no doubles <<"mean", m>> when np.mean of
\*               m of them is the double next to them, with <<"slope",
\*               sign>> and <<"ss_res", q>> for the noise of the fit
KeptOrder(n) == [i \in 1..n |-> i]
ReverseOrder(n) == [i \in 1..n |-> n + 1 - i]
NoFloatTies == {<<"lag", 0>>} \ {<<"lag", 0>>}

MkTable(kind, n) ==
    [columns |-> KindColumns(kind),
     dtype   |-> [c \in Range(KindColumns(kind)) |-> ColumnDType(c)],
     nrows   |-> n,
     cells   |-> [c \in Range(KindColumns(kind)) |->
                    [i \in 1..n |-> KindCell(kind, n, c, i)]],
     tie_rank |-> KeptOrder(n),
     float_ties |-> NoFloatTies,
     unit |-> 1]

\* the same table under a build whose sort orders equal keys by rank
Reordered(t, rank) == [t EXCEPT !.tie_rank = rank]

\* The one column of these tables that repeats a value is a of the gappy
\* tables (5 on the odd rows, 9 on the even ones).  With a as the time
\* column a result depends on the sorted rows for column b alone (date and
\* name are no numbers, a is the time column itself), whose rows with a
\* value of a are rows 1 and 3, both of key 5: the sort has two outcomes,
\* and the kept and the reverse order give the two.
Tables ==
    {MkTable(kind, n) : kind \in {"ramp", "gappy"}, n \in 0..MaxRows}
    \cup {Reordered(MkTable("gappy", n), ReverseOrder(n)) : n \in 3..MaxRows}
    \cup {MkTable(kind, n) : kind \in {"nodate", "text"}, n \in 0..SmallRows}

(***************************************************************************)
(* DataFrame accessors.                                                    *)
(***************************************************************************)
\* col in self.data.columns
HasColumn(t, c) == c \in Range(t.columns)

\* the dtype of ts_data[c].values (lines 153, 234, 383, 508): a column of
\* whole numbers with a cell missing is held as float64, NaN where the cell
\* is missing, and stays float64 when those rows are dropped
ArrayDType(t, c) ==
    IF t.dtype[c] = "number" /\ \E i \in 1..t.nrows : IsNull(t.cells[c][i])
    THEN "real"
    ELSE t.dtype[c]

\* pd.to_datetime(series) returns normally: a datetime or number column
\* always converts; a text column converts when every value present parses.
ToDatetimeOk(t, c, rows) ==
    \/ t.dtype[c] \in {"datetime", "number", "real"}
    \/ \A i \in rows : IsNull(t.cells[c][i]) \/ ParseDate(Val(t.cells[c][i])) # <<>>

AllRows(t) == 1..t.nrows

(***************************************************************************)
(* set_data and the column auto-detection (lines 18-52).                   *)
(***************************************************************************)
\* _detect_time_column: the first column, in table order, that is datetime
\* typed or that pd.to_datetime converts without raising.
RECURSIVE DetectFrom(_, _)
DetectFrom(t, k) ==
    IF k > Len(t.columns) THEN None
    ELSE IF t.dtype[t.columns[k]] = "datetime" THEN t.columns[k]
    ELSE IF ToDatetimeOk(t, t.columns[k], AllRows(t)) THEN t.columns[k]
    ELSE DetectFrom(t, k + 1)

detect_time_column(t) == DetectFrom(t, 1)

\* select_dtypes(include=[np.number]) alone, the time column left in
detect_value_columns_keeping_time(t, tc) ==
    SelectSeq(t.columns, LAMBDA c : t.dtype[c] \in {"number", "real"})

\* _detect_value_columns: the number-typed columns in table order, the time
\* column removed.
detect_value_columns(t, tc) ==
    SelectSeq(t.columns, LAMBDA c : t.dtype[c] \in {"number", "real"} /\ c # tc)

(***************************************************************************)
(* What a call hands back: a returned dict, or an exception that reached   *)
(* the caller.  Inside a handler, Raise(e) is an exception in flight; the  *)
(* handler's  try: ... except Exception as e  turns it into a failure dict.*)
(***************************************************************************)
Raise(e) == [exception |-> e]
Raised(r) == "exception" \in DOMAIN r
Failure(msg) == [success |-> FALSE, error |-> msg]
ReturnNone == [returned |-> None]

\* mutant of TryExcept: the handler body runs outside any try block
TryExceptMissing(body) == body

\* try: body  except Exception as e: return {'success': False, 'error': str(e)}
TryExcept(body) == IF Raised(body) THEN Failure(body.exception) ELSE body

(***************************************************************************)
(* SeriesPreparer: self.data[[time_column, col]].dropna() and              *)
(* .sort_values(time_column), as sequences of row numbers.                 *)
(***************************************************************************)
RowSeq(n) == [i \in 1..n |-> i]

\* the rows .dropna() keeps, in table order
CompleteRows(t, tc, col) ==
    SelectSeq(RowSeq(t.nrows),
              LAMBDA i : ~IsNull(t.cells[tc][i]) /\ ~IsNull(t.cells[col][i]))

\* what sort_values compares: the raw cell of the time column
SortKey(t, tc, i) ==
    IF t.dtype[tc] = "text" THEN LexRank(Val(t.cells[tc][i])) ELSE Val(t.cells[tc][i])

\* sort_values(time_column) runs with the default kind='quicksort', which
\* leaves the order of rows of equal key to the build: t.tie_rank is the
\* rank this build's sort gives the rows of the table among rows of equal
\* key, any permutation of the row numbers.
ComesBefore(t, tc, i, j) ==
    \/ SortKey(t, tc, i) < SortKey(t, tc, j)
    \/ SortKey(t, tc, i) = SortKey(t, tc, j) /\ t.tie_rank[i] < t.tie_rank[j]

\* r goes after every row of the sorted prefix that comes before it
RECURSIVE InsertRow(_, _, _, _)
InsertRow(t, tc, sorted, r) ==
    IF sorted = <<>> THEN <<r>>
    ELSE IF ComesBefore(t, tc, sorted[Len(sorted)], r)
         THEN Append(sorted, r)
         ELSE Append(InsertRow(t, tc, SubSeq(sorted, 1, Len(sorted) - 1), r),
                     sorted[Len(sorted)])

RECURSIVE SortFrom(_, _, _, _)
SortFrom(t, tc, rows, k) ==
    IF k = 0 THEN <<>>
    ELSE InsertRow(t, tc, SortFrom(t, tc, rows, k - 1), rows[k])

sort_values(t, tc, rows) == SortFrom(t, tc, rows, Len(rows))

\* ts_data[col].values after the sort
ColumnValues(t, col, rows) == [k \in 1..Len(rows) |-> Val(t.cells[col][rows[k]])]

IsNumeric(t, col) == t.dtype[col] \in {"number", "real"}

\* float(v) of an entry of such an array: the cell itself on a table of
\* unit 1, the fraction v / unit otherwise
AsFloat(t, v) ==
    LET common == {d \in 1..t.unit : v % d = 0 /\ t.unit % d = 0}
        g == CHOOSE d \in common : \A e \in common : e <= d
    IN  IF t.unit = 1 THEN v ELSE <<v \div g, t.unit \div g>>

\* the values of col on the complete rows, in time order
series_values(t, tc, col) ==
    ColumnValues(t, col, sort_values(t, tc, CompleteRows(t, tc, col)))

\* mutant of TooFew: the minimum itself is rejected too
TooFewInclusive(rows, minimum) == Len(rows) <= minimum

\* if len(ts_data) < minimum
TooFew(rows, minimum) == Len(rows) < minimum

(***************************************************************************)
(* Arithmetic on integer-valued series.  The code computes in floating     *)
(* point; the model keeps every quantity an exact fraction <<num, den>>    *)
(* with den > 0 and compares fractions by cross-multiplication.            *)
(***************************************************************************)
RECURSIVE SumTo(_, _)
SumTo(s, k) == IF k = 0 THEN 0 ELSE SumTo(s, k - 1) + s[k]

SumSeq(s) == SumTo(s, Len(s))

\* a zero of either sign (den = -1 is the double -0.0) compares as zero
RatLT(x, y) ==
    IF x[1] = 0 THEN 0 < y[1]
    ELSE IF y[1] = 0 THEN x[1] < 0
    ELSE IF x[2] = y[2] THEN x[1] < y[1] ELSE x[1] * y[2] < y[1] * x[2]
RatGT(x, y) == RatLT(y, x)

\* len(s)^2 * np.var(s): len(s) * sum(x^2) - sum(x)^2
VarNum(s) ==
    Len(s) * SumSeq([k \in 1..Len(s) |-> s[k] * s[k]]) - SumSeq(s) * SumSeq(s)

\* len(np.arange(i, n, period)) for a phase i in 0..period-1
PhaseCount(n, i, period) == IF i >= n THEN 0 ELSE ((n - 1 - i) \div period) + 1

\* values[np.arange(i, n, period)]
PhaseValues(values, i, period) ==
    [k \in 1..PhaseCount(Len(values), i, period) |-> values[i + 1 + (k - 1) * period]]

(***************************************************************************)
(* PeriodDetector (lines 276-331).                                         *)
(***************************************************************************)
common_periods == <<7, 12, 24, 30, 365>>
MaxLagCap == 50

\* The phases of equal values whose np.var is not 0: np.mean of m equal
\* values that are no doubles may be the double next to them (<<"mean",
\* m>> in ties), and np.var is then the square e^2 of that rounding error,
\* the same e for every m.
NoisyPhases(n, period, ties) ==
    {i \in 0..(period - 1) :
        PhaseCount(n, i, period) > 1 /\ <<"mean", PhaseCount(n, i, period)>> \in ties}

\* mutant of is_valid_seasonal_period: the mean phase variance is compared
\* with the whole total variance, not with 80% of it
is_valid_seasonal_period_lenient(values, period, ties) ==
    LET n == Len(values)
        q == n \div period
        D == (q * (q + 1)) * (q * (q + 1))
        phases == {i \in 0..(period - 1) : PhaseCount(n, i, period) > 1}
        scaled == [i \in 0..(period - 1) |->
                     IF i \in phases
                     THEN VarNum(PhaseValues(values, i, period))
                          * (D \div (PhaseCount(n, i, period) * PhaseCount(n, i, period)))
                     ELSE 0]
        total == SumSeq([k \in 1..period |-> scaled[k - 1]])
    IN  IF n < period * 2 THEN FALSE
        ELSE IF phases = {} THEN FALSE
        ELSE \/ n * n * total < Cardinality(phases) * D * VarNum(values)
             \/ /\ VarNum(values) = 0
                /\ <<"mean", n>> \in ties
                /\ Cardinality(NoisyPhases(n, period, ties)) < Cardinality(phases)

\* _is_valid_seasonal_period.  Every phase has q or q+1 members (q =
\* n div period), so the phase variances share the denominator (q*(q+1))^2.
\* The comparison of line 320 is one of doubles: where the two sides are
\* equal as fractions and not zero, the rounding of total_var * 0.8 decides,
\* and the comparison holds when ties says so; where all values are equal
\* the variances are 0 or e^2 (see NoisyPhases) and are compared as such.
is_valid_seasonal_period(values, period, ties) ==
    LET n == Len(values)
        q == n \div period
        D == (q * (q + 1)) * (q * (q + 1))
        phases == {i \in 0..(period - 1) : PhaseCount(n, i, period) > 1}
        scaled == [i \in 0..(period - 1) |->
                     IF i \in phases
                     THEN VarNum(PhaseValues(values, i, period))
                          * (D \div (PhaseCount(n, i, period) * PhaseCount(n, i, period)))
                     ELSE 0]
        total == SumSeq([k \in 1..period |-> scaled[k - 1]])
    IN  IF n < period * 2 THEN FALSE
        ELSE IF phases = {} THEN FALSE
        ELSE \* avg_seasonal_var < total_var * 0.8
             \/ 10 * n * n * total < 8 * Cardinality(phases) * D * VarNum(values)
             \/ /\ 10 * n * n * total = 8 * Cardinality(phases) * D * VarNum(values)
                /\ VarNum(values) # 0
                /\ <<"period", period>> \in ties
             \/ /\ VarNum(values) = 0
                /\ <<"mean", n>> \in ties
                /\ 10 * Cardinality(NoisyPhases(n, period, ties))
                       < 8 * Cardinality(phases)

\* n * (values[i] - mean), for i in 1..n
Deviations(values) ==
    LET n == Len(values)
        S == SumSeq(values)
    IN  [i \in 1..n |-> n * values[i] - S]

\* len(values[:-lag]): the slice values[:-0] is values[:0], which is empty
HeadLen(n, lag) == IF lag = 0 THEN 0 ELSE n - lag

\* line 328 multiplies an array of n - lag elements by one of HeadLen
\* elements; numpy raises ValueError unless the lengths agree or one is 1
autocorrelation_raises(values, lag) ==
    /\ lag < Len(values)
    /\ Len(values) - lag # HeadLen(Len(values), lag)
    /\ Len(values) - lag # 1
    /\ HeadLen(Len(values), lag) # 1

\* _autocorrelation where it returns, as the fraction <<numerator,
\* denominator>> scaled by n^2 (the product of line 328 has no element when
\* values[:-lag] is empty).  On equal values whose np.mean is the double
\* next to them (<<"mean", n>> in ties) every deviation is the same
\* rounding error e: the numerator is (n - lag) * e^2 and the denominator
\* n * e^2, not 0.
autocorrelation(values, lag, ties) ==
    LET n == Len(values)
        dev == Deviations(values)
        numerator == SumSeq([i \in 1..HeadLen(n, lag) |-> dev[i + lag] * dev[i]])
        denominator == SumSeq([i \in 1..n |-> dev[i] * dev[i]])
    IN  IF lag >= n THEN <<0, 1>>
        ELSE IF denominator # 0 THEN <<numerator, denominator>>
        ELSE IF <<"mean", n>> \in ties THEN <<HeadLen(n, lag), n>>
        ELSE <<0, 1>>

\* a call of _autocorrelation: the value returned, or the exception raised
autocorrelation_call(values, lag, ties) ==
    IF autocorrelation_raises(values, lag) THEN Raise("ValueError")
    ELSE [value |-> autocorrelation(values, lag, ties)]

RECURSIVE FirstCommon(_, _, _)
FirstCommon(values, k, ties) ==
    IF k > Len(common_periods) THEN NoInt
    ELSE IF Len(values) >= common_periods[k] * 2
            /\ is_valid_seasonal_period(values, common_periods[k], ties)
         THEN <<common_periods[k]>>
         ELSE FirstCommon(values, k + 1, ties)

\* autocorr[i] > 0.3 (line 294), a comparison of doubles: the double 0.3
\* lies below 3/10, so an autocorrelation of exactly 3/10 is above it when
\* its double is rounded up, which ties records for the lag
AboveThreshold(r, lag, ties) ==
    \/ RatGT(r, <<3, 10>>)
    \/ 10 * r[1] = 3 * r[2] /\ <<"lag", lag>> \in ties

\* autocorr[i] > autocorr[i - 1] and autocorr[i] > autocorr[i + 1] (line
\* 294), for the autocorrelations a at lag and b at lag + 1: where the two
\* are the same fraction their doubles may still differ, and ties holds
\* <<"lag_up", lag>> when the double of b is the greater, <<"lag_down",
\* lag>> when that of a is
SameFraction(a, b) == ~RatGT(a, b) /\ ~RatGT(b, a)

Rises(a, b, lag, ties) ==
    RatGT(b, a) \/ (SameFraction(a, b) /\ <<"lag_up", lag>> \in ties)

Falls(a, b, lag, ties) ==
    RatGT(a, b) \/ (SameFraction(a, b) /\ <<"lag_down", lag>> \in ties)

\* the scan of autocorr, a Python list indexed from 0: autocorr[i] is the
\* autocorrelation at lag i + 1
RECURSIVE FirstPeak(_, _, _)
FirstPeak(autocorr, i, ties) ==
    IF i > Len(autocorr) - 2 THEN NoInt
    ELSE IF /\ Rises(autocorr[i], autocorr[i + 1], i, ties)
            /\ Falls(autocorr[i + 1], autocorr[i + 2], i + 1, ties)
            /\ AboveThreshold(autocorr[i + 1], i + 1, ties)
         THEN <<i + 1>>
         ELSE FirstPeak(autocorr, i + 1, ties)

detect_seasonal_period(values, ties) ==
    LET common == FirstCommon(values, 1, ties)
        max_lag == Min2(MaxLagCap, Len(values) \div 2)
        autocorr == [lag \in 1..(max_lag - 1) |-> autocorrelation(values, lag, ties)]
    IN  IF common # NoInt THEN common ELSE FirstPeak(autocorr, 1, ties)

(***************************************************************************)
(* basic_analysis (lines 54-116).                                          *)
(***************************************************************************)
NullCount(t, c) == Cardinality({i \in AllRows(t) : IsNull(t.cells[c][i])})

\* the value columns that get an entry in basic_stats
StatsColumns(t, vcs) ==
    SelectSeq(vcs, LAMBDA c : HasColumn(t, c) /\ NullCount(t, c) < t.nrows)

basic_body(t, tc, vcs) ==
    IF ~HasColumn(t, tc) THEN Raise("KeyError")                      \* line 66
    ELSE IF ~ToDatetimeOk(t, tc, AllRows(t)) THEN Raise("ValueError") \* line 66
    ELSE IF \E k \in 1..Len(vcs) : ~HasColumn(t, vcs[k])
         THEN Raise("KeyError")                                      \* line 94
    ELSE IF \E k \in 1..Len(StatsColumns(t, vcs)) :
                ~IsNumeric(t, StatsColumns(t, vcs)[k])
         THEN Raise("TypeError")                                     \* line 103
    ELSE [success |-> TRUE,
          time_column |-> tc,
          value_columns |-> vcs,
          missing_time |-> NullCount(t, tc),
          stats_columns |-> StatsColumns(t, vcs)]

basic_analysis(t, tc, vcs) ==
    IF t = NoTable \/ ~TruthyStr(tc) THEN Failure("No time column detected")
    ELSE TryExcept(basic_body(t, tc, vcs))

(***************************************************************************)
(* trend_analysis (lines 118-208).                                         *)
(***************************************************************************)
MinTrendPoints == 2

Skipped == [skipped |-> TRUE]

\* one pass of the loop body for a column of the table (lines 146-199)
trend_column(t, tc, col) ==
    IF ~HasColumn(t, tc) THEN Raise("KeyError")                      \* line 147
    ELSE LET rows == CompleteRows(t, tc, col)
         IN  IF TooFew(rows, MinTrendPoints) THEN Skipped
             ELSE IF tc = col THEN Raise("ValueError")               \* line 152
             ELSE IF ~IsNumeric(t, col) THEN Raise("TypeError")      \* line 162
             ELSE LET y == series_values(t, tc, col)
                  IN  [column |-> col,
                       data_points |-> Len(y),
                       start_value |-> AsFloat(t, y[1]),
                       end_value |-> AsFloat(t, y[Len(y)])]

trend_body(t, tc, vcs, column) ==
    LET columns_to_analyze ==
            IF column = None THEN vcs
            ELSE IF column \in Range(vcs) THEN <<column>> ELSE <<>>
        outcomes == [k \in 1..Len(columns_to_analyze) |->
                       IF ~HasColumn(t, columns_to_analyze[k]) THEN Skipped
                       ELSE trend_column(t, tc, columns_to_analyze[k])]
        raising == {k \in 1..Len(outcomes) : Raised(outcomes[k])}
        first == CHOOSE k \in raising : \A j \in raising : k <= j
    IN  IF columns_to_analyze = <<>> THEN Failure("No valid columns to analyze")
        ELSE IF raising # {} THEN outcomes[first]
        ELSE [success |-> TRUE,
              trend_analysis |-> SelectSeq(outcomes, LAMBDA o : o # Skipped),
              columns_analyzed |-> columns_to_analyze]

trend_analysis(t, tc, vcs, column) ==
    IF t = NoTable \/ ~TruthyStr(tc) THEN Failure("No time column detected")
    ELSE TryExcept(trend_body(t, tc, vcs, column))

(***************************************************************************)
(* seasonal_analysis (lines 210-274).                                      *)
(***************************************************************************)
MinSeasonalPoints == 10
MinPeriod == 2

\* mutant of period_used: a caller's period below 2 is raised to 2
period_used_clamped(values, period, ties) ==
    IF period = NoInt THEN detect_seasonal_period(values, ties)
    ELSE IF period[1] < 2 THEN <<2>> ELSE period

\* lines 236-237: the caller's period, the detected one when it is None
period_used(values, period, ties) ==
    IF period = NoInt THEN detect_seasonal_period(values, ties) ELSE period

seasonal_body(t, tc, column, period) ==
    IF ~HasColumn(t, tc) THEN Raise("KeyError")                      \* line 226
    ELSE LET rows == CompleteRows(t, tc, column)
         IN
         IF TooFew(rows, MinSeasonalPoints)
         THEN Failure("Insufficient data for seasonal analysis")
         ELSE IF tc = column THEN Raise("ValueError")                \* line 231
         ELSE IF ~ToDatetimeOk(t, tc, Range(rows)) THEN Raise("ValueError") \* line 232
         ELSE IF period = NoInt /\ ~IsNumeric(t, column)
              THEN Raise("TypeError")                                \* line 237
         ELSE LET values == series_values(t, tc, column)
                  used == period_used(values, period, t.float_ties)
              IN  IF used = NoInt \/ used[1] < MinPeriod
                  THEN Failure("Could not detect seasonal period")
                  ELSE IF ~IsNumeric(t, column) THEN Raise("TypeError") \* line 249
                  ELSE [success |-> TRUE,
                        period |-> used,
                        phases |-> Min2(used[1], Len(values)),
                        data_points |-> Len(values)]

seasonal_analysis(t, tc, column, period) ==
    IF t = NoTable \/ ~TruthyStr(tc) \/ ~HasColumn(t, column)
    THEN Failure("Invalid column or no time column")
    ELSE TryExcept(seasonal_body(t, tc, column, period))

(***************************************************************************)
(* forecasting (lines 360-416).                                            *)
(***************************************************************************)
MinForecastPoints == 3

ForecastMethods == {"linear", "exponential", "moving_average"}

forecasting_body(t, tc, column, periods, method) ==
    IF ~HasColumn(t, tc) THEN Raise("KeyError")                      \* line 377
    ELSE LET rows == CompleteRows(t, tc, column)
         IN
         IF TooFew(rows, MinForecastPoints)
         THEN Failure("Insufficient data for forecasting")
         ELSE IF tc = column THEN Raise("ValueError")                \* line 382
         ELSE IF method \notin ForecastMethods
              THEN Failure("Unknown forecasting method: " \o method)   \* line 395
         ELSE IF ~IsNumeric(t, column) THEN Raise("TypeError")       \* lines 389-393
         ELSE IF ~ToDatetimeOk(t, tc, Range(rows)) THEN Raise("ValueError") \* line 398
         ELSE LET values == series_values(t, tc, column)
              IN  [success |-> TRUE,
                   method |-> method,
                   forecast_periods |-> periods,
                   last_actual_value |-> AsFloat(t, values[Len(values)])]

forecasting(t, tc, column, periods, method) ==
    IF t = NoTable \/ ~TruthyStr(tc) \/ ~HasColumn(t, column)
    THEN Failure("Invalid column or no time column")
    ELSE TryExcept(forecasting_body(t, tc, column, periods, method))

(***************************************************************************)
(* decomposition (lines 486-552).                                          *)
(***************************************************************************)
MinDecomposePoints == 12

decomposition_body(t, tc, column, model) ==
    IF ~HasColumn(t, tc) THEN Raise("KeyError")                      \* line 502
    ELSE LET rows == CompleteRows(t, tc, column)
         IN
         IF TooFew(rows, MinDecomposePoints)
         THEN Failure("Insufficient data for decomposition")
         ELSE IF tc = column THEN Raise("ValueError")                \* line 507
         ELSE IF ~IsNumeric(t, column) THEN Raise("TypeError")       \* line 514
         ELSE IF ~ToDatetimeOk(t, tc, Range(rows)) THEN Raise("ValueError") \* line 520
         ELSE LET values == series_values(t, tc, column)
              IN  [success |-> TRUE,
                   model |-> model,
                   original |-> [k \in 1..Len(values) |-> AsFloat(t, values[k])],
                   period |-> detect_seasonal_period(values, t.float_ties),
                   residual_model |-> IF model = "additive" THEN "additive"
                                      ELSE "multiplicative"]

decomposition(t, tc, column, model) ==
    IF t = NoTable \/ ~TruthyStr(tc) \/ ~HasColumn(t, column)
    THEN Failure("Invalid column or no time column")
    ELSE TryExcept(decomposition_body(t, tc, column, model))

(***************************************************************************)
(* The analyzer as a state machine.                                        *)
(***************************************************************************)
\* set_data's two assignments (lines 22-32)
new_time_column(t, tc_arg) ==
    IF TruthyStr(tc_arg) THEN tc_arg ELSE detect_time_column(t)

new_value_columns(t, tc, vc_arg) ==
    IF TruthyList(vc_arg) THEN vc_arg ELSE detect_value_columns(t, tc)

\* The arguments callers pass.
ConfigArgs ==
    { <<None, NoneList>>,
      <<"", <<>>>>,
      <<"date", <<>>>>,
      <<"date", NoneList>>,
      <<None, <<"a", "b">>>>,
      <<"date", <<"b", "ghost", "a">>>>,
      <<"name", <<"a">>>>,
      <<"ghost", <<"a">>>>,
      <<"date", <<"name", "a">>>>,
      <<"a", <<"date", "b">>>> }

ColumnArgs == {"a", "b", "name", "date", "ghost"}
MaxPeriodArg == 3
PeriodArgs == {NoInt} \cup {<<p>> : p \in 1..MaxPeriodArg}
MethodArgs == ForecastMethods \cup {"arima"}
ModelArgs == {"additive", "multiplicative", "stl"}

Init ==
    /\ data \in Tables \cup {NoTable}
    /\ time_column = None
    /\ value_columns = <<>>
    /\ call = [op |-> "init"]
    /\ result = ReturnNone

\* set_data(data, time_column, value_columns).  With data = None the
\* auto-detection raises AttributeError and the fields not yet assigned
\* keep their old values.
SetData(t, tc_arg, vc_arg) ==
    /\ call' = [op |-> "set_data", time_column |-> tc_arg, value_columns |-> vc_arg]
    /\ data' = t
    /\ IF t = NoTable /\ ~TruthyStr(tc_arg)
       THEN /\ UNCHANGED <<time_column, value_columns>>
            /\ result' = Raise("AttributeError")
       ELSE /\ time_column' = new_time_column(t, tc_arg)
            /\ IF t = NoTable /\ ~TruthyList(vc_arg)
               THEN /\ UNCHANGED value_columns
                    /\ result' = Raise("AttributeError")
               ELSE /\ value_columns' =
                           new_value_columns(t, new_time_column(t, tc_arg), vc_arg)
                    /\ result' = ReturnNone

BasicAnalysis ==
    /\ call' = [op |-> "basic_analysis"]
    /\ result' = basic_analysis(data, time_column, value_columns)
    /\ UNCHANGED <<data, time_column, value_columns>>

\* mutant of TrendAnalysis: the handler keeps the columns it selected in
\* self.value_columns
TrendAnalysisNarrowing(column) ==
    /\ call' = [op |-> "trend_analysis", column |-> column]
    /\ result' = trend_analysis(data, time_column, value_columns, column)
    /\ value_columns' = IF column = None THEN value_columns
                        ELSE IF column \in Range(value_columns) THEN <<column>> ELSE <<>>
    /\ UNCHANGED <<data, time_column>>

TrendAnalysis(column) ==
    /\ call' = [op |-> "trend_analysis", column |-> column]
    /\ result' = trend_analysis(data, time_column, value_columns, column)
    /\ UNCHANGED <<data, time_column, value_columns>>

SeasonalAnalysis(column, period) ==
    /\ call' = [op |-> "seasonal_analysis", column |-> column, period |-> period]
    /\ result' = seasonal_analysis(data, time_column, column, period)
    /\ UNCHANGED <<data, time_column, value_columns>>

Forecasting(column, periods, method) ==
    /\ call' = [op |-> "forecasting", column |-> column, periods |-> periods,
                method |-> method]
    /\ result' = forecasting(data, time_column, column, periods, method)
    /\ UNCHANGED <<data, time_column, value_columns>>

Decomposition(column, model) ==
    /\ call' = [op |-> "decomposition", column |-> column, model |-> model]
    /\ result' = decomposition(data, time_column, column, model)
    /\ UNCHANGED <<data, time_column, value_columns>>

Next ==
    \/ \E t \in Tables \cup {NoTable}, args \in ConfigArgs : SetData(t, args[1], args[2])
    \/ BasicAnalysis
    \/ \E column \in ColumnArgs \cup {None} : TrendAnalysis(column)
    \/ \E column \in ColumnArgs, period \in PeriodArgs : SeasonalAnalysis(column, period)
    \/ \E column \in ColumnArgs, periods \in 1..MaxHorizon, method \in MethodArgs :
          Forecasting(column, periods, method)
    \/ \E column \in ColumnArgs, model \in ModelArgs : Decomposition(column, model)

Spec == Init /\ [][Next]_vars

(***************************************************************************)
(* Vocabulary of the properties.                                           *)
(***************************************************************************)
AnalysisOps ==
    {"basic_analysis", "trend_analysis", "seasonal_analysis", "forecasting",
     "decomposition"}

ColumnOps == {"seasonal_analysis", "forecasting", "decomposition"}

\* a table and a time column are configured
Configured == data # NoTable /\ TruthyStr(time_column)

\* the rows of t with both a timestamp and a value of col
CompleteCount(t, tc, col) ==
    Cardinality({i \in 1..t.nrows : t.cells[tc][i] # <<>> /\ t.cells[col][i] # <<>>})

\* the time column is a column of the table whose values are timestamps
TimeColumnUsable ==
    /\ Configured
    /\ HasColumn(data, time_column)
    /\ ToDatetimeOk(data, time_column, AllRows(data))

\* every configured value column that the table has is a number column
\* other than the time column
ValueColumnsNumeric ==
    \A c \in Range(value_columns) :
        HasColumn(data, c) => (IsNumeric(data, c) /\ c # time_column)

(***************************************************************************)
(* C1: every analysis operation, in every state and for every argument,    *)
(* returns a dict that is a success or a failure carrying a reason; no     *)
(* exception reaches the caller.                                           *)
(***************************************************************************)
C1_NoExceptionReachesCaller ==
    call.op \in AnalysisOps =>
        /\ ~Raised(result)
        /\ "success" \in DOMAIN result
        /\ (~result.success => ("error" \in DOMAIN result /\ result.error # ""))

\* forecasting on a configuration whose time column is not in the table:
\* the KeyError of line 377 comes back as a failure dict
C1_Witness ==
    /\ call.op = "forecasting"
    /\ data # NoTable
    /\ ~HasColumn(data, time_column)
    /\ result = Failure("KeyError")

(***************************************************************************)
(* C2 (as stated): after set_data the configuration is the supplied        *)
(* time_column / value_columns whenever one was supplied, whatever its     *)
(* contents, and the classifier's result for the new table otherwise.      *)
(***************************************************************************)
C2_ConfigurationIsLatestCall ==
    (call.op = "set_data" /\ data # NoTable) =>
        /\ time_column = IF call.time_column # None THEN call.time_column
                         ELSE detect_time_column(data)
        /\ value_columns = IF call.value_columns # NoneList THEN call.value_columns
                           ELSE detect_value_columns(data, time_column)

(***************************************************************************)
(* C3: an analysis operation, succeeding or failing, leaves data,          *)
(* time_column and value_columns as they were; and repeating the same      *)
(* analysis call gives the same result.                                    *)
(***************************************************************************)
C3_AnalysisIsReadOnly ==
    [][ /\ call'.op \in AnalysisOps => UNCHANGED <<data, time_column, value_columns>>
        /\ (call' = call /\ call.op \in AnalysisOps) => result' = result ]_vars

\* a one-column trend request answered on a configuration that still holds
\* several value columns
C3_Witness ==
    /\ call.op = "trend_analysis"
    /\ call.column # None
    /\ result.success
    /\ result.trend_analysis # <<>>
    /\ Len(value_columns) > 1

(***************************************************************************)
(* C4 (as stated): trend_analysis fails exactly when no table / time       *)
(* column is configured or no selected column is analyzable (not a         *)
(* configured value column, no value columns, or every selected column     *)
(* with fewer than 2 complete rows); otherwise it succeeds.                *)
(***************************************************************************)
C4_TrendFailsIffNothingAnalyzable ==
    call.op = "trend_analysis" =>
        LET selected == IF call.column = None THEN value_columns
                        ELSE IF call.column \in Range(value_columns)
                             THEN <<call.column>> ELSE <<>>
            analyzable == {c \in Range(selected) :
                             /\ HasColumn(data, c)
                             /\ CompleteCount(data, time_column, c) >= 2}
        IN  IF ~Configured THEN result = Failure("No time column detected")
            ELSE (HasColumn(data, time_column) /\ ValueColumnsNumeric) =>
                    (result.success <=> analyzable # {})

(***************************************************************************)
(* C5 (as stated): in a successful trend_analysis result, columns_analyzed *)
(* lists exactly the columns that have a per-column trend result.          *)
(***************************************************************************)
C5_ColumnsAnalyzedHaveResults ==
    (call.op = "trend_analysis" /\ result.success) =>
        Range(result.columns_analyzed)
            = {result.trend_analysis[k].column : k \in 1..Len(result.trend_analysis)}

(***************************************************************************)
(* C6 (as stated): seasonal_analysis, forecasting and decomposition on a   *)
(* column that is absent from the table or present but not numeric return  *)
(* the failure "Invalid column or no time column" and nothing else.        *)
(***************************************************************************)
C6_InvalidColumnRejected ==
    (/\ call.op \in ColumnOps
     /\ Configured
     /\ (~HasColumn(data, call.column) \/ ~IsNumeric(data, call.column))) =>
        result = Failure("Invalid column or no time column")

(***************************************************************************)
(* C7: on a number column of the table, with the time column in the table, *)
(* the operation fails for insufficient data exactly when the rows that    *)
(* have both a timestamp and a value number fewer than 3 (forecasting),    *)
(* 10 (seasonal_analysis) or 12 (decomposition).                           *)
(***************************************************************************)
C7_InsufficientDataThreshold ==
    (/\ call.op \in ColumnOps
     /\ Configured
     /\ HasColumn(data, time_column)
     /\ HasColumn(data, call.column)
     /\ IsNumeric(data, call.column)) =>
        LET points == CompleteCount(data, time_column, call.column)
        IN  CASE call.op = "forecasting" ->
                   (result = Failure("Insufficient data for forecasting"))
                       <=> points < 3
              [] call.op = "seasonal_analysis" ->
                   (result = Failure("Insufficient data for seasonal analysis"))
                       <=> points < 10
              [] OTHER ->
                   (result = Failure("Insufficient data for decomposition"))
                       <=> points < 12

\* decomposition succeeds on exactly 12 complete rows of a table that has
\* more rows than that
C7_Witness ==
    /\ call.op = "decomposition"
    /\ Configured
    /\ HasColumn(data, time_column)
    /\ HasColumn(data, call.column)
    /\ data.nrows > 12
    /\ CompleteCount(data, time_column, call.column) = 12
    /\ result.success

(***************************************************************************)
(* C8 (as stated): an unsupported forecasting method and an unsupported    *)
(* decomposition model both come back as a failure, never as a result.     *)
(***************************************************************************)
C8_UnknownModeFails ==
    /\ (call.op = "forecasting" /\ call.method \notin ForecastMethods)
           => ~result.success
    /\ (call.op = "decomposition" /\ call.model \notin {"additive", "multiplicative"})
           => ~result.success

(***************************************************************************)
(* C9 (as stated): with a table and a time column configured,              *)
(* basic_analysis succeeds for every configured value_columns, one naming  *)
(* a column absent from the table included.                                *)
(***************************************************************************)
C9_BasicOnlyFailsWithoutTimeColumn ==
    (call.op = "basic_analysis" /\ TimeColumnUsable /\ ValueColumnsNumeric) =>
        result.success

(***************************************************************************)
(* C10: on a number column with at least 10 complete rows (time column     *)
(* usable), seasonal_analysis takes the caller's period when one is given  *)
(* and the detected period otherwise; it fails with "Could not detect      *)
(* seasonal period" exactly when that period is None or below 2, and       *)
(* otherwise succeeds reporting that period.                               *)
(***************************************************************************)
C10_SeasonalPeriodChoice ==
    (/\ call.op = "seasonal_analysis"
     /\ TimeColumnUsable
     /\ HasColumn(data, call.column)
     /\ IsNumeric(data, call.column)
     /\ call.column # time_column
     /\ CompleteCount(data, time_column, call.column) >= 10) =>
        LET obtained ==
                IF call.period # NoInt THEN call.period
                ELSE detect_seasonal_period(series_values(data, time_column, call.column),
                                            data.float_ties)
        IN  IF obtained = NoInt \/ obtained[1] < 2
            THEN result = Failure("Could not detect seasonal period")
            ELSE result.success /\ result.period = obtained

\* no period supplied, one detected, and the result reports it
C10_Witness ==
    /\ call.op = "seasonal_analysis"
    /\ call.period = NoInt
    /\ result.success
    /\ result.period # NoInt

(***************************************************************************)
(* Exact fractions.  A float of the code is a fraction <<num, den>> in     *)
(* lowest terms with den > 0; a fraction with den = 0 is the float that a  *)
(* division by zero leaves (inf, -inf or nan by the sign of num).  A       *)
(* double has two zeros: <<0, 1>> is 0.0 and <<0, -1>> is -0.0, which a    *)
(* product or a quotient of a zero with a negative number leaves and       *)
(* which decides the sign of a division by it.  <<2, 0>> and <<-2, 0>> are *)
(* finite doubles too large for a fraction here (see Huge), <<3, 0>> and   *)
(* <<-3, 0>> doubles other than 0 too small for one (see Tiny).  A         *)
(* standard deviation is carried as its square, np.std(s) ** 2.            *)
(***************************************************************************)
Abs(x) == IF x < 0 THEN -x ELSE x

RECURSIVE Gcd(_, _)
Gcd(x, y) == IF y = 0 THEN x ELSE Gcd(y, x % y)

Sign(x) == IF x > 0 THEN 1 ELSE IF x < 0 THEN -1 ELSE 0

Rat(num, den) ==
    IF den = 0 THEN <<Sign(num), 0>>
    ELSE LET g == Gcd(Abs(num), Abs(den))
         IN  IF den > 0 THEN <<num \div g, den \div g>>
             ELSE <<(-num) \div g, (-den) \div g>>

RatInt(i) == <<i, 1>>

\* 0.0 or -0.0
IsZero(x) == x[1] = 0 /\ x[2] # 0
\* the sign bit of a float as 1 or -1 (nan counts as positive)
SignBit(x) == IF x[1] < 0 \/ (x[1] = 0 /\ x[2] < 0) THEN -1 ELSE 1
SignedZero(sign) == IF sign < 0 THEN <<0, -1>> ELSE <<0, 1>>

\* sums over the least common denominator, products after cancelling; a sum
\* of two zeros is -0.0 only when both are, every other zero sum is 0.0
RatAdd(x, y) ==
    IF IsZero(x) /\ IsZero(y) THEN SignedZero(IF x[2] < 0 /\ y[2] < 0 THEN -1 ELSE 1)
    ELSE IF IsZero(x) THEN y
    ELSE IF IsZero(y) THEN x
    ELSE LET g == Gcd(x[2], y[2])
         IN  IF g = 0 THEN Rat(x[1] * Abs(y[2]) + y[1] * Abs(x[2]), 0)
             ELSE Rat(x[1] * (y[2] \div g) + y[1] * (x[2] \div g), (x[2] \div g) * y[2])
RatNeg(x) == IF IsZero(x) THEN <<0, -x[2]>> ELSE <<-x[1], x[2]>>
RatSub(x, y) == RatAdd(x, RatNeg(y))
RatMul(x, y) ==
    IF x[2] = 0 \/ y[2] = 0
    THEN <<IF x[1] = 0 \/ y[1] = 0 THEN 0 ELSE SignBit(x) * SignBit(y), 0>>
    ELSE IF x[1] = 0 \/ y[1] = 0 THEN SignedZero(SignBit(x) * SignBit(y))
    ELSE LET g1 == Gcd(Abs(x[1]), y[2])
             g2 == Gcd(Abs(y[1]), x[2])
         IN  Rat((x[1] \div g1) * (y[1] \div g2), (x[2] \div g2) * (y[2] \div g1))
\* x / y: a division by a zero gives nan for a zero or nan x and an
\* infinity of the sign of x times the sign of the zero otherwise
RatDiv(x, y) ==
    IF IsZero(y) THEN <<Sign(x[1]) * SignBit(y), 0>>
    ELSE IF y[2] = 0
         THEN IF x[2] = 0 \/ y[1] = 0 THEN <<0, 0>>
              ELSE SignedZero(SignBit(x) * SignBit(y))
    ELSE RatMul(x, Rat(y[2], y[1]))

RECURSIVE RatSumTo(_, _)
RatSumTo(s, k) == IF k = 0 THEN RatInt(0) ELSE RatAdd(RatSumTo(s, k - 1), s[k])

\* np.sum(s) and np.mean(s) of a float array
RatSum(s) == RatSumTo(s, Len(s))
RatMean(s) == RatDiv(RatSum(s), RatInt(Len(s)))

\* np.std(s) ** 2 = np.var(s): the mean of the squared deviations from the mean
StdSq(s) ==
    LET mean == RatMean(s)
    IN  RatMean([k \in 1..Len(s) |->
                    RatMul(RatSub(s[k], mean), RatSub(s[k], mean))])

\* a double that is rounding noise where the fraction is 0: of the order
\* of 1e-17 for values of the order of 1
Tiny(sign) == <<3 * sign, 0>>

\* x / unit, for a float x of a table whose real cells count 1/unit
InUnits(x, unit) == IF x[1] = 0 \/ x[2] = 0 THEN x ELSE Rat(x[1], x[2] * unit)

\* the second entry of the fact of this kind in ties, none when there is
\* no such fact
FactOf(ties, kind, none) ==
    IF \E f \in ties : f[1] = kind THEN (CHOOSE f \in ties : f[1] = kind)[2] ELSE none

\* an integer array as a float array
AsFloats(values) == [k \in 1..Len(values) |-> RatInt(values[k])]

\* the C cast of a float to an integer: truncation toward zero
Trunc(x) == IF x[1] >= 0 THEN x[1] \div x[2] ELSE -((-x[1]) \div x[2])

(***************************************************************************)
(* The numbers of trend_analysis (lines 154-199) for the values y of one   *)
(* column in time order, x = 0..n-1.                                       *)
(***************************************************************************)
\* mutant of Arange: the positions count from start + 1
ArangeFromNext(start, stop) == [k \in 1..(stop - start) |-> start + k]

\* np.arange(start, stop)
Arange(start, stop) == [k \in 1..(stop - start) |-> start + k - 1]

\* slope * x + intercept for an integer array x
Line(slope, intercept, x) ==
    [k \in 1..Len(x) |-> RatAdd(RatMul(slope, RatInt(x[k])), intercept)]

\* r_squared = 1 - (ss_res / ss_tot) if ss_tot != 0 else 0 (line 172)
r_squared(ss_res, ss_tot) ==
    IF ss_tot # RatInt(0) THEN RatSub(RatInt(1), RatDiv(ss_res, ss_tot)) ELSE RatInt(0)

\* lines 154-186
\* lines 174-179
trend_direction(slope) ==
    IF slope[1] > 0 THEN "increasing"
    ELSE IF slope[1] < 0 THEN "decreasing"
    ELSE "stable"

\* abs(slope) > np.std(y) * f for f = 0.1 (percent = 10) and f = 0.05
\* (percent = 5), compared as squares.  Where the two sides are equal the
\* doubles decide: np.std(y) * f may round below abs(slope), as for y = 0,
\* 0, 5, 4, 4, 2, 0, 0, 0 with slope -0.2 and np.std(y) * 0.1 =
\* 0.19999999999999998, or both sides are rounding noise, as for seven
\* values 0.1 with slope 9.1e-18 and np.std(y) * 0.1 = 1.4e-18; ties
\* holds <<"strength", percent>> when abs(slope) is the greater.
AboveShareOfStd(slope_sq, var_y, percent, ties) ==
    LET scaled == RatMul(RatInt((100 \div percent) * (100 \div percent)), slope_sq)
    IN  \/ RatGT(scaled, var_y)
        \/ scaled = var_y /\ <<"strength", percent>> \in ties

\* lines 182-187
trend_strength(slope_sq, var_y, ties) ==
    IF AboveShareOfStd(slope_sq, var_y, 10, ties) THEN "strong"
    ELSE IF AboveShareOfStd(slope_sq, var_y, 5, ties) THEN "moderate"
    ELSE "weak"

\* the slope of line 165, for x = 0..n-1
least_squares_slope(y) ==
    LET x == Arange(0, Len(y))
        n == Len(x)
        sum_x == SumSeq(x)
        sum_y == SumSeq(y)
        sum_xy == SumSeq([k \in 1..n |-> x[k] * y[k]])
        sum_x2 == SumSeq([k \in 1..n |-> x[k] * x[k]])
    IN  Rat(n * sum_xy - sum_x * sum_y, n * sum_x2 - sum_x * sum_x)

trend_fit(y, ties) ==
    LET x == Arange(0, Len(y))
        n == Len(x)
        sum_x == SumSeq(x)
        sum_y == SumSeq(y)
        slope == least_squares_slope(y)
        intercept == RatDiv(RatSub(RatInt(sum_y), RatMul(slope, RatInt(sum_x))),
                            RatInt(n))
        y_pred == Line(slope, intercept, x)
        ss_res == RatSum([k \in 1..n |->
                            RatMul(RatSub(RatInt(y[k]), y_pred[k]),
                                   RatSub(RatInt(y[k]), y_pred[k]))])
        mean_y == RatMean(AsFloats(y))
        ss_tot == RatSum([k \in 1..n |->
                            RatMul(RatSub(RatInt(y[k]), mean_y),
                                   RatSub(RatInt(y[k]), mean_y))])
        slope_sq == RatMul(slope, slope)
        var_y == StdSq(AsFloats(y))
        \* On equal values every fraction above is 0 and the doubles are
        \* rounding noise: n * sum_xy - sum_x * sum_y of sign slope_noise,
        \* the deviations from np.mean(y) all the same error e with ss_tot
        \* = tot_noise * e^2, and ss_res = res_noise * e^2 (ss_tot again
        \* when the slope is 0, y_pred being np.mean(y) then).
        slope_noise == IF slope[1] = 0 THEN FactOf(ties, "slope", 0) ELSE 0
        tot_noise == IF IsZero(ss_tot) /\ <<"mean", n>> \in ties THEN n ELSE 0
        res_noise == IF slope_noise = 0 THEN tot_noise
                     ELSE FactOf(ties, "ss_res", tot_noise)
    IN  [slope |-> IF slope_noise = 0 THEN slope ELSE Tiny(slope_noise),
         intercept |-> intercept,
         r_squared |-> IF tot_noise = 0 THEN r_squared(ss_res, ss_tot)
                       ELSE r_squared(RatInt(res_noise), RatInt(tot_noise)),
         trend_direction |-> trend_direction(IF slope_noise = 0 THEN slope
                                             ELSE Tiny(slope_noise)),
         trend_strength |-> trend_strength(slope_sq, var_y, ties)]

\* trend_analysis with the numbers of every entry
trend_analysis_full(t, tc, vcs, column) ==
    LET r == trend_analysis(t, tc, vcs, column)
    IN  IF ~r.success THEN r
        ELSE [r EXCEPT !.trend_analysis =
                 [k \in 1..Len(r.trend_analysis) |->
                     LET fit == trend_fit(series_values(t, tc, r.trend_analysis[k].column),
                                          t.float_ties)
                     IN  r.trend_analysis[k]
                         @@ [fit EXCEPT !.slope = InUnits(@, t.unit),
                                        !.intercept = InUnits(@, t.unit)]]]

(***************************************************************************)
(* The forecasters (lines 418-484).  Each returns <<forecast,              *)
(* forecast_errors>>, two arrays of `periods` floats.                      *)
(***************************************************************************)
\* np.full(periods, v)
Full(periods, v) == [k \in 1..periods |-> v]

\* mutant of linear_forecast: the projection starts at the last observed
\* index, future_x = np.arange(len(values) - 1, len(values) - 1 + periods)
linear_forecast_from_last(values, periods) ==
    LET x == Arange(0, Len(values))
        y == values
        n == Len(x)
        sum_x == SumSeq(x)
        sum_y == SumSeq(y)
        sum_xy == SumSeq([k \in 1..n |-> x[k] * y[k]])
        sum_x2 == SumSeq([k \in 1..n |-> x[k] * x[k]])
        slope == Rat(n * sum_xy - sum_x * sum_y, n * sum_x2 - sum_x * sum_x)
        intercept == RatDiv(RatSub(RatInt(sum_y), RatMul(slope, RatInt(sum_x))),
                            RatInt(n))
        future_x == Arange(Len(values) - 1, Len(values) - 1 + periods)
        forecast == Line(slope, intercept, future_x)
        y_pred == Line(slope, intercept, x)
        residuals == [k \in 1..n |-> RatSub(RatInt(y[k]), y_pred[k])]
        std_error == StdSq(residuals)
    IN  <<forecast, Full(periods, std_error)>>

\* _linear_forecast (lines 418-443)
linear_forecast(values, periods) ==
    LET x == Arange(0, Len(values))
        y == values
        n == Len(x)
        sum_x == SumSeq(x)
        sum_y == SumSeq(y)
        sum_xy == SumSeq([k \in 1..n |-> x[k] * y[k]])
        sum_x2 == SumSeq([k \in 1..n |-> x[k] * x[k]])
        slope == Rat(n * sum_xy - sum_x * sum_y, n * sum_x2 - sum_x * sum_x)
        intercept == RatDiv(RatSub(RatInt(sum_y), RatMul(slope, RatInt(sum_x))),
                            RatInt(n))
        future_x == Arange(Len(values), Len(values) + periods)
        forecast == Line(slope, intercept, future_x)
        y_pred == Line(slope, intercept, x)
        residuals == [k \in 1..n |-> RatSub(RatInt(y[k]), y_pred[k])]
        std_error == StdSq(residuals)
    IN  <<forecast, Full(periods, std_error)>>

\* alpha * values[i] + (1 - alpha) * smoothed[i-1] in doubles, alpha = 0.3
\* (lines 447, 454).  The double alpha is AlphaBits * 2^-54 with AlphaBits =
\* (3 * 2^54 - 2) / 10, and the double 1 - alpha is BetaBits * 2^-53 with
\* 2 * BetaBits = 2^54 - AlphaBits + BetaSlack.  Each product is rounded to
\* 53 bits, to even on a tie, and so is their sum.  The roundings need the
\* low bits of the two constants only: AlphaLow = AlphaBits % 2^16 and
\* BetaLow = BetaBits % 2^16, which serve values below 20000 in magnitude.
AlphaLow == 13107
BetaLow == 26214
BetaSlack == -1

\* the number of bits the product of x >= 1 with a constant of 53 bits that
\* stands for num/5 * 2^52 has beyond 53
ExtraBits(num, x) ==
    CHOOSE j \in 0..15 : 5 * 2^j <= num * x /\ num * x < 5 * 2^(j + 1)

\* what rounding such a product to 53 bits adds to it, in units of its
\* last bit: low holds the low bits of the constant, j is ExtraBits
RoundingError(low, x, j) ==
    LET both == ((low % 2^(j + 1)) * (x % 2^(j + 1))) % 2^(j + 1)
        rem == both % 2^j
        up == 2 * rem > 2^j \/ (2 * rem = 2^j /\ both >= 2^j)
    IN  IF j = 0 THEN 0 ELSE IF up THEN 2^j - rem ELSE -rem

\* fl(alpha * v) + fl((1 - alpha) * s) less the fraction (3v + 7s) / 10,
\* where that fraction is a whole number (s - v is then a multiple of 10),
\* in units of 2^-54
SmoothDrift(v, s) ==
    (s - v) \div 5 + BetaSlack * s
    + (IF v = 0 THEN 0
       ELSE Sign(v) * RoundingError(AlphaLow, Abs(v), ExtraBits(6, Abs(v))))
    + (IF s = 0 THEN 0
       ELSE 2 * Sign(s) * RoundingError(BetaLow, Abs(s), ExtraBits(7, Abs(s))))

\* half the distance from the whole number m >= 1 to the double before it,
\* in units of 2^-54
HalfGapBelow(m) == 2^(CHOOSE g \in 0..31 : 2^g <= 2 * m - 1 /\ 2 * m - 1 < 2^(g + 1))

\* smoothed[i] = alpha * values[i] + (1 - alpha) * smoothed[i-1] stored in an
\* integer array (smoothed = np.zeros_like(values), line 450): the double is
\* cut to a whole number toward zero.  Where the fraction is a whole number
\* the rounded sum may fall just short of it in magnitude (0.3 * 3 + 0.7 * 3
\* is 2.9999999999999996), and the cut then gives the number before.
SmoothInt(v, s) ==
    LET exact == Rat(3 * v + 7 * s, 10)
        whole == exact[1]
        short == Sign(whole) * SmoothDrift(v, s) < -HalfGapBelow(Abs(whole))
    IN  IF exact[2] # 1 \/ whole = 0 THEN Trunc(exact)
        ELSE IF short THEN whole - Sign(whole)
        ELSE whole

RECURSIVE SmoothedInt(_, _)
SmoothedInt(values, k) ==
    IF k = 1 THEN <<values[1]>>
    ELSE LET before == SmoothedInt(values, k - 1)
         IN  Append(before, SmoothInt(values[k], before[k - 1]))

\* the same recurrence in a float array: nothing is cut
RECURSIVE SmoothedFloat(_, _)
SmoothedFloat(values, k) ==
    IF k = 1 THEN <<RatInt(values[1])>>
    ELSE LET before == SmoothedFloat(values, k - 1)
         IN  Append(before, RatAdd(RatMul(Rat(3, 10), RatInt(values[k])),
                                   RatMul(Rat(7, 10), before[k - 1])))

\* _exponential_forecast (lines 445-465); dtype is that of the array
exponential_forecast(values, dtype, periods) ==
    LET smoothed == IF dtype = "number"
                    THEN AsFloats(SmoothedInt(values, Len(values)))
                    ELSE SmoothedFloat(values, Len(values))
        forecast_value == smoothed[Len(smoothed)]
        residuals == [k \in 1..Len(values) |-> RatSub(RatInt(values[k]), smoothed[k])]
    IN  <<Full(periods, forecast_value), Full(periods, StdSq(residuals))>>

\* np.convolve(values, np.ones(window) / window, mode='valid')
ConvolveValid(values, window) ==
    [k \in 1..(Len(values) - window + 1) |->
        Rat(SumSeq(SubSeq(values, k, k + window - 1)), window)]

\* mutant of moving_average_forecast: the window is the whole series
moving_average_forecast_whole(values, periods) ==
    LET window == Len(values)
        moving_avg == ConvolveValid(values, window)
        forecast_value == moving_avg[Len(moving_avg)]
        residuals == [k \in 1..Len(moving_avg) |->
                         RatSub(RatInt(values[window - 1 + k]), moving_avg[k])]
    IN  <<Full(periods, forecast_value), Full(periods, StdSq(residuals))>>

\* _moving_average_forecast (lines 467-484), window: int = 3
moving_average_forecast(values, periods) ==
    LET window == IF Len(values) < 3 THEN Len(values) ELSE 3
        moving_avg == ConvolveValid(values, window)
        forecast_value == moving_avg[Len(moving_avg)]
        residuals == [k \in 1..Len(moving_avg) |->
                         RatSub(RatInt(values[window - 1 + k]), moving_avg[k])]
    IN  <<Full(periods, forecast_value), Full(periods, StdSq(residuals))>>

(***************************************************************************)
(* The future time points of forecasting (lines 397-402).                  *)
(***************************************************************************)
\* pd.to_datetime of the time cell of row i
TimeOf(t, tc, i) ==
    IF t.dtype[tc] = "text" THEN ParseDate(Val(t.cells[tc][i]))[1]
    ELSE Val(t.cells[tc][i])

\* series.diff().dropna()
Diffs(times) == [k \in 1..(Len(times) - 1) |-> times[k + 1] - times[k]]

Occurrences(s, v) == Cardinality({k \in 1..Len(s) : s[k] = v})

\* series.mode().iloc[0]: of the most frequent values, the smallest
Mode(s) ==
    CHOOSE v \in Range(s) :
        \A w \in Range(s) :
            \/ Occurrences(s, w) < Occurrences(s, v)
            \/ (Occurrences(s, w) = Occurrences(s, v) /\ v <= w)

\* lines 398-402, for the rows of ts_data in sorted order
future_times(t, tc, rows, periods) ==
    LET times == [k \in 1..Len(rows) |-> TimeOf(t, tc, rows[k])]
        last_time == TimeOf(t, tc, rows[Len(rows)])
        time_diffs == Diffs(times)
        \* pd.Timedelta(days=1) when there is no interval at all
        avg_interval == IF time_diffs # <<>> THEN Mode(time_diffs) ELSE 1
    IN  [k \in 1..periods |-> last_time + k * avg_interval]

\* forecasting with the numbers of its result (lines 389-413)
forecasting_full(t, tc, column, periods, method) ==
    LET r == forecasting(t, tc, column, periods, method)
        rows == sort_values(t, tc, CompleteRows(t, tc, column))
        values == ColumnValues(t, column, rows)
        forecast == IF method = "linear" THEN linear_forecast(values, periods)
                    ELSE IF method = "exponential"
                         THEN exponential_forecast(values, ArrayDType(t, column),
                                                   periods)
                    ELSE moving_average_forecast(values, periods)
    IN  IF ~r.success THEN r
        ELSE r @@ [forecast_values |->
                       [k \in 1..periods |-> InUnits(forecast[1][k], t.unit)],
                   forecast_errors |->
                       [k \in 1..periods |->
                           InUnits(InUnits(forecast[2][k], t.unit), t.unit)],
                   future_times |-> future_times(t, tc, rows, periods),
                   last_actual_time |-> TimeOf(t, tc, rows[Len(rows)])]

(***************************************************************************)
(* The numbers of decomposition (lines 510-543) for the values of one      *)
(* column in time order; dtype is the dtype of the values array.  The      *)
(* model's result carries the sequences original, trend, seasonal and      *)
(* residual and the period.                                                *)
(***************************************************************************)
\* np.convolve(values, np.ones(window) / window, mode='same'): the middle
\* len(values) entries of the full convolution, values outside the array
\* counting as 0
ConvolveSame(values, window) ==
    LET n == Len(values)
        offset == (window - 1) \div 2
    IN  [k \in 1..n |->
            Rat(SumSeq([j \in 1..window |->
                           IF k + offset - window + j \in 1..n
                           THEN values[k + offset - window + j] ELSE 0]),
                window)]

\* The doubles of the decomposition differ from the fractions by rounding
\* noise, which decides an outcome in two places; ties holds what the
\* doubles do there:
\*   <<"phase_short", i>>  the mean of phase i is a whole number other than
\*                         0 and its double is smaller in magnitude (the
\*                         mean -2 of phase 0 of 0, 3, 4, 0, 3, 4, ... is
\*                         -1.9999999999999998)
\*   <<"phase_over", i>>   the same, its double larger in magnitude
\*   <<"trend_above", k>>  trend[k] is 0 and its double above 0
\*   <<"trend_below", k>>  the same, its double below 0
\* the C cast of the double of x to an integer
CutToInt(x, short) ==
    IF x[2] = 1 /\ x[1] # 0 /\ short THEN x[1] - Sign(x[1]) ELSE Trunc(x)

\* the seasonal array of lines 524-531
seasonal_component(values, dtype, detrended, period, ties) ==
    LET n == Len(values)
        phase(k) == (k - 1) % period[1]
        \* np.mean(detrended[indices]) for the phase of position k
        phase_mean(k) == RatMean(PhaseValues(detrended, phase(k), period[1]))
    IN  IF period # NoInt /\ period[1] # 0 /\ period[1] < n \div 2
        THEN [k \in 1..n |->
                 \* seasonal = np.zeros_like(values): an integer array
                 \* truncates what is stored in it
                 IF dtype = "number"
                 THEN RatInt(CutToInt(phase_mean(k), <<"phase_short", phase(k)>> \in ties))
                 ELSE phase_mean(k)]
        ELSE [k \in 1..n |-> RatInt(0)]

\* the sign of the double of seasonal[k] + 1 where the fraction is 0 and
\* the double is not: a float array that holds the mean -1 of a phase as a
\* double next to -1
SeasonalNoise(dtype, seasonal, period, ties, k) ==
    IF dtype = "number" \/ period = NoInt \/ seasonal[k] # RatInt(-1) THEN 0
    ELSE IF <<"phase_short", (k - 1) % period[1]>> \in ties THEN 1
    ELSE IF <<"phase_over", (k - 1) % period[1]>> \in ties THEN -1
    ELSE 0

\* the sign of the double of trend[k] where the fraction is 0 and the
\* double is not
TrendNoise(trend, ties, k) ==
    IF ~IsZero(trend[k]) THEN 0
    ELSE IF <<"trend_above", k>> \in ties THEN 1
    ELSE IF <<"trend_below", k>> \in ties THEN -1
    ELSE 0

\* a finite double beyond every fraction here: the quotient by a divisor
\* that is rounding noise
Huge(sign) == <<2 * sign, 0>>

\* value / (t * s) of line 534, for the fractions t and s and the signs
\* t_noise and s_noise of their doubles where these are noise
ResidualQuotient(value, t, t_noise, s, s_noise) ==
    LET sign == (IF t_noise # 0 THEN t_noise ELSE SignBit(t))
                * (IF s_noise # 0 THEN s_noise ELSE SignBit(s))
        zero == (t_noise = 0 /\ IsZero(t)) \/ (s_noise = 0 /\ IsZero(s))
    IN  IF t_noise = 0 /\ s_noise = 0 THEN RatDiv(value, RatMul(t, s))
        ELSE IF zero THEN RatDiv(value, SignedZero(sign))
        ELSE IF IsZero(value) THEN SignedZero(SignBit(value) * sign)
        ELSE Huge(Sign(value[1]) * sign)

\* mutant of decomposition_parts: the residual is taken against the phase
\* means before they are stored in the seasonal array
decomposition_parts_unrounded(values, unit, dtype, model, ties) ==
    LET n == Len(values)
        window == Min2(7, n \div 4)
        array == [k \in 1..n |-> Rat(values[k], unit)]
        trend == [k \in 1..n |-> InUnits(ConvolveSame(values, window)[k], unit)]
        detrended == [k \in 1..n |-> RatSub(array[k], trend[k])]
        period == detect_seasonal_period(values, ties)
        seasonal == seasonal_component(values, dtype, detrended, period, ties)
        means == seasonal_component(values, "real", detrended, period, ties)
        residual ==
            IF model = "additive"
            THEN [k \in 1..n |-> RatSub(RatSub(array[k], trend[k]), means[k])]
            ELSE [k \in 1..n |->
                     RatDiv(array[k],
                            RatMul(trend[k], RatAdd(means[k], RatInt(1))))]
    IN  [trend |-> trend, seasonal |-> seasonal, residual |-> residual]

decomposition_parts(values, unit, dtype, model, ties) ==
    LET n == Len(values)
        window == Min2(7, n \div 4)
        array == [k \in 1..n |-> Rat(values[k], unit)]
        trend == [k \in 1..n |-> InUnits(ConvolveSame(values, window)[k], unit)]
        detrended == [k \in 1..n |-> RatSub(array[k], trend[k])]
        period == detect_seasonal_period(values, ties)
        seasonal == seasonal_component(values, dtype, detrended, period, ties)
        residual ==
            IF model = "additive"
            THEN [k \in 1..n |-> RatSub(RatSub(array[k], trend[k]), seasonal[k])]
            ELSE [k \in 1..n |->
                     ResidualQuotient(array[k],
                                      trend[k], TrendNoise(trend, ties, k),
                                      RatAdd(seasonal[k], RatInt(1)),
                                      SeasonalNoise(dtype, seasonal, period, ties, k))]
    IN  [trend |-> trend, seasonal |-> seasonal, residual |-> residual]

\* decomposition with the numbers of its result
decomposition_full(t, tc, column, model) ==
    LET r == decomposition(t, tc, column, model)
    IN  IF ~r.success THEN r
        ELSE r @@ decomposition_parts(series_values(t, tc, column), t.unit,
                                      ArrayDType(t, column), model, t.float_ties)

(***************************************************************************)
(* The numbers of seasonal_analysis (lines 242-263) and                    *)
(* _calculate_seasonal_strength (lines 333-358).                           *)
(***************************************************************************)
\* np.var of an integer array
Variance(s) == Rat(VarNum(s), Len(s) * Len(s))

\* the phases i in range(period) with len(seasonal_indices) > 0, in order
NonEmptyPhases(values, period) ==
    SelectSeq([k \in 1..period |-> k - 1],
              LAMBDA i : PhaseCount(Len(values), i, period) > 0)

\* seasonal_components: one entry season_<i> per such phase (lines 243-252)
seasonal_components(values, period) ==
    LET phases == NonEmptyPhases(values, period)
    IN  [k \in 1..Len(phases) |->
            LET seasonal_values == PhaseValues(values, phases[k], period)
            IN  [season |-> phases[k],
                 mean |-> RatMean(AsFloats(seasonal_values)),
                 std |-> StdSq(AsFloats(seasonal_values)),
                 count |-> Len(seasonal_values)]]

\* seasonal_pattern (lines 258-262)
seasonal_pattern(values, period) ==
    LET phases == NonEmptyPhases(values, period)
    IN  [k \in 1..Len(phases) |->
            RatMean(AsFloats(PhaseValues(values, phases[k], period)))]

\* lines 353-358.  A seasonal_ratio of exactly 0.5 or 0.2 is left to the
\* doubles: the quotient of the two rounded variances may come out above
\* it (values 0, 1, 1, 0, 0, 1, 1, 2, 0, 2, 2, 2 with period 4: variances
\* 1/3 and 2/3, ratio above 0.5); ties holds <<"ratio", period>> when it
\* does.
calculate_seasonal_strength(values, period, ties) ==
    LET n == Len(values)
        phase_var == [k \in 1..period |->
                        IF PhaseCount(n, k - 1, period) > 1
                        THEN Variance(PhaseValues(values, k - 1, period))
                        ELSE RatInt(0)]
        seasonal_var == RatDiv(RatSum(phase_var), RatInt(period))
        total_var == Variance(values)
        seasonal_ratio == RatDiv(seasonal_var, total_var)
        \* on equal values, in units of e^2 (see NoisyPhases)
        noisy_ratio == Rat(Cardinality(NoisyPhases(n, period, ties)), period)
    IN  IF n < period * 2 THEN "insufficient_data"
        ELSE IF total_var = RatInt(0) /\ <<"mean", n>> \in ties
             THEN IF RatGT(noisy_ratio, <<1, 2>>) THEN "strong"
                  ELSE IF RatGT(noisy_ratio, <<1, 5>>) THEN "moderate"
                  ELSE "weak"
        ELSE IF total_var = RatInt(0) THEN "no_variation"
        ELSE IF RatGT(seasonal_ratio, <<1, 2>>) THEN "strong"
        ELSE IF seasonal_ratio = <<1, 2>> /\ <<"ratio", period>> \in ties THEN "strong"
        ELSE IF RatGT(seasonal_ratio, <<1, 5>>) THEN "moderate"
        ELSE IF seasonal_ratio = <<1, 5>> /\ <<"ratio", period>> \in ties THEN "moderate"
        ELSE "weak"

\* seasonal_analysis with the numbers of its result
seasonal_analysis_full(t, tc, column, period) ==
    LET r == seasonal_analysis(t, tc, column, period)
        values == series_values(t, tc, column)
    IN  IF ~r.success THEN r
        ELSE r @@ [seasonal_components |->
                       [k \in 1..Len(seasonal_components(values, r.period[1])) |->
                           [seasonal_components(values, r.period[1])[k] EXCEPT
                               !.mean = InUnits(@, t.unit),
                               !.std = InUnits(InUnits(@, t.unit), t.unit)]],
                   seasonal_pattern |->
                       [k \in 1..Len(seasonal_pattern(values, r.period[1])) |->
                           InUnits(seasonal_pattern(values, r.period[1])[k], t.unit)],
                   seasonal_strength |->
                       calculate_seasonal_strength(values, r.period[1],
                                                   t.float_ties)]

(***************************************************************************)
(* The series of whole numbers that the tables below hold in their value   *)
(* columns, in time order, and their bounds.                               *)
(***************************************************************************)
MaxSeriesLen == 4
MaxValue == 2
MaxSeasonLen == 13
MaxExtra == 2
MaxDetectLen == 10
MaxTrendLen == 6
MaxScale == 3

\* three-point series on which a step of the exponential smoothing is a
\* whole number that the doubles fall short of
SmoothShortSeries == {<<3, 3, 3>>, <<33, 3, 3>>, <<-6, -6, -6>>}

\* the values of an integer column "a" of a series table
SeriesValues(n) ==
    [1..n -> 0..MaxValue] \cup {[i \in 1..n |-> 10 + b * (i - 1)] : b \in -2..2}
    \cup {values \in SmoothShortSeries : Len(values) = n}

PatternKinds == {"alt", "tri", "flat", "ramp"}

\* the value at position i = 0, 1, ...
PatternValue(kind, i) ==
    CASE kind = "alt"  -> IF i % 2 = 0 THEN 5 ELSE 9
      [] kind = "tri"  -> <<2, 8, 3>>[(i % 3) + 1]
      [] kind = "flat" -> 4
      [] OTHER         -> i

\* round(10 * sin(2*pi*i/P)) for P = 7 and P = 12
Sine10(P, i) ==
    IF P = 7 THEN <<0, 8, 10, 4, -4, -10, -8>>[(i % 7) + 1]
    ELSE <<0, 5, 9, 10, 9, 5, 0, -5, -9, -10, -9, -5>>[(i % 12) + 1]

SineSeries(base, sign, P, n) == [k \in 1..n |-> base + sign * Sine10(P, k - 1)]

SineBases == {0, 3}

PatternSeries ==
    {[k \in 1..n |-> PatternValue(kind, k - 1)] :
        kind \in PatternKinds, n \in MinSeasonalPoints..MaxSeasonLen}

SineWaves ==
    UNION {{SineSeries(base, sign, P, n) :
               base \in SineBases, sign \in {-1, 1}, n \in (2 * P)..(2 * P + MaxExtra)} :
           P \in {7, 12}}

\* the values of the detector tables
ShortSeries == UNION {[1..n -> {0, 1}] : n \in 8..MaxDetectLen}

LongLengths == {2 * common_periods[1], 2 * common_periods[2]}

LongSeries ==
    {[k \in 1..n |-> k - 1] : n \in LongLengths}
    \cup {SineSeries(0, 1, P, n) : P \in {7, 12}, n \in LongLengths}

\* the values of the trend tables: 0s and 1s
TrendSeriesValues == UNION {[1..n -> {0, 1}] : n \in 2..MaxTrendLen}

\* the series with every value multiplied by c
Scaled(y, c) == [k \in 1..Len(y) |-> c * y[k]]

(***************************************************************************)
(* What the doubles do where the fractions tie.  The code computes in      *)
(* doubles, the model in fractions; a comparison or a cast whose two sides *)
(* are the same fraction is decided by the rounding of the doubles.  The   *)
(* field float_ties of a table holds what the doubles do on its series, as *)
(* facts <<kind, index>> that the operators above consult at such a tie    *)
(* and nowhere else.  For the series of ModelSeries the facts are          *)
(* listed here, as IEEE-754 double arithmetic with numpy's pairwise        *)
(* summation gives them; the facts that np.convolve's order of summation   *)
(* and its fusing of multiply-add decide are left to the build.  For any   *)
(* other series of whole numbers the facts are unknown, and every          *)
(* consistent choice among the ties of its fractions is an outcome.        *)
(***************************************************************************)
\* Ten-point 0/1 series whose autocorrelation at lag 3 is exactly 3/10 and
\* whose double is 0.30000000000000004, a local peak on all but the
\* seventh and the sixteenth; on every other 0/1 series of 8 to 11 points
\* the double comparisons agree with the fractions.
PeakTieSeries ==
    {<<0, 0, 0, 0, 0, 1, 1, 0, 1, 1>>, <<0, 0, 0, 0, 1, 0, 1, 1, 0, 1>>,
     <<0, 0, 0, 1, 0, 0, 1, 0, 1, 1>>, <<0, 0, 0, 1, 0, 0, 1, 1, 0, 1>>,
     <<0, 0, 1, 1, 0, 0, 1, 0, 0, 1>>, <<0, 1, 0, 0, 1, 0, 1, 0, 0, 1>>,
     <<0, 0, 1, 0, 0, 1, 1, 0, 0, 1>>,
     <<0, 1, 0, 1, 0, 0, 1, 0, 0, 1>>, <<0, 1, 1, 0, 1, 1, 0, 1, 0, 1>>,
     <<1, 0, 0, 1, 0, 0, 1, 0, 1, 0>>, <<1, 0, 1, 0, 1, 1, 0, 1, 1, 0>>,
     <<1, 0, 1, 1, 0, 1, 0, 1, 1, 0>>, <<1, 1, 0, 0, 1, 1, 0, 1, 1, 0>>,
     <<1, 1, 1, 0, 1, 1, 0, 0, 1, 0>>, <<1, 1, 1, 0, 1, 1, 0, 1, 0, 0>>,
     <<1, 1, 0, 1, 1, 0, 0, 1, 1, 0>>,
     <<1, 1, 1, 0, 1, 1, 0, 1, 1, 1>>, <<1, 1, 1, 1, 0, 1, 0, 0, 1, 0>>,
     <<1, 1, 1, 1, 1, 0, 0, 1, 0, 0>>}

\* Fourteen-point series on which candidate 7 gives a mean bucket variance
\* of 4/7, exactly 0.8 times the total variance 5/7; in doubles
\* 0.5714285714285714 < 0.5714285714285715.
VarianceTieSeries ==
    {<<0, 0, 0, 0, 0, 1, 1, 1, 1, 2, 2, 2, 2, 2>>,
     <<0, 0, 0, 0, 0, 1, 1, 1, 2, 1, 2, 2, 2, 2>>}

\* abs(slope) = 0.2 * c and np.std(y) = 2 * c on c times this series.  A
\* scale by a power of two is exact in doubles, so the odd part of c
\* decides: the double np.std(y) * 0.1 is below abs(slope) for the odd
\* parts 1, 113, 119 and 175 and is abs(slope) or above it for every
\* other odd part below MaxOddPart.
StrengthTieBase == <<0, 0, 5, 4, 4, 2, 0, 0, 0>>
StrengthTieOdd == {1, 113, 119, 175}
MaxOddPart == 200

RECURSIVE OddPart(_)
OddPart(c) == IF c % 2 = 0 THEN OddPart(c \div 2) ELSE c

\* c, when values is c times StrengthTieBase for a whole c >= 1, else 0
StrengthTieScale(values) ==
    IF Len(values) # Len(StrengthTieBase) \/ values[3] < StrengthTieBase[3] THEN 0
    ELSE IF values = [k \in 1..Len(values) |->
                         (values[3] \div StrengthTieBase[3]) * StrengthTieBase[k]]
         THEN values[3] \div StrengthTieBase[3]
    ELSE 0

\* with period 4 the mean phase variance is 1/3 and the variance 2/3; the
\* double of their quotient is above 0.5
RatioTieSeries ==
    {<<0, 1, 1, 0, 0, 1, 1, 2, 0, 2, 2, 2>>, <<1, 0, 2, 1, 0, 2, 2, 0, 1, 0, 2, 1>>,
     <<2, 0, 0, 1, 2, 1, 2, 0, 2, 1, 0, 1>>}

\* twelve-point series whose detrended values have a phase 0 of mean -2,
\* -1 or -4 that the doubles give as -1.9999999999999998,
\* -0.9999999999999998 or -3.9999999999999996, however np.convolve sums
PhaseShortSeries ==
    <<<<0, 3, 4, 0, 3, 4, 0, 3, 4, 0, 3, 4>>,
      <<4, 6, 4, 6, 4, 6, 4, 6, 4, 6, 4, 6>>,
      <<0, 6, 8, 0, 6, 8, 0, 6, 8, 0, 6, 8>>,
      <<1, 2, 4, 1, 2, 4, 1, 2, 4, 1, 2, 4>>>>

\* the twelve-point series whose phase 1 has the mean -1: np.convolve
\* gives it as -0.9999999999999998 where it multiplies and then adds, as
\* -1.0 where it fuses the two
PhaseBuildSeries == <<0, 1, 5, 0, 1, 5, 0, 1, 5, 0, 1, 5>>

\* the facts of a series of whole numbers that every build shares: those
\* of the series listed above, none for any other series of ModelSeries
DoubleTies(values) ==
    IF values \in PeakTieSeries THEN {<<"lag", 3>>}
    ELSE IF values \in VarianceTieSeries THEN {<<"period", common_periods[1]>>}
    ELSE IF StrengthTieScale(values) # 0
            /\ OddPart(StrengthTieScale(values)) \in StrengthTieOdd
         THEN {<<"strength", 10>>}
    ELSE IF values \in RatioTieSeries THEN {<<"ratio", 4>>}
    ELSE IF values \in Range(PhaseShortSeries) THEN {<<"phase_short", 0>>}
    ELSE NoFloatTies

\* either sign of the rounding noise of an entry of the trend that is 0
TrendTies(positions) ==
    {<<"trend_above", k>> : k \in positions} \cup {<<"trend_below", k>> : k \in positions}

\* The facts that the build decides: np.convolve sums the products
\* values[i] * (1 / window) in an order, and with or without fusing the
\* multiplication into the addition, that its build chooses.  On the sine
\* waves of period 12 about 0 of 14 and of 27 points and on that of
\* period 7 of 24 points, entries of the trend such as
\* (-9 - 5 + 0 + 5 + 9) / 6 come out as 0 or as 2.2e-16 above or below
\* it; on every other series of ModelSeries all orders agree.
BuildTies(values) ==
    IF values = PhaseBuildSeries THEN {<<"phase_short", 1>>}
    ELSE IF \E sign \in {-1, 1} : values = SineSeries(0, sign, 12, 27)
         THEN TrendTies({26})
    ELSE IF values = SineSeries(0, 1, 12, 14) THEN TrendTies({7, 13})
    ELSE IF values = SineSeries(0, 1, 7, 24) THEN TrendTies({5, 12, 19, 23})
    ELSE NoFloatTies

\* the series on which rounding decides a strength label or a seasonal
\* value
TiedSeries == RatioTieSeries \cup Range(PhaseShortSeries) \cup {PhaseBuildSeries}

\* The series whose facts DoubleTies and BuildTies give: those of the
\* tables below but the unlisted ones, and the multiples of
\* StrengthTieBase whose odd part is below MaxOddPart.
ModelSeries ==
    UNION {SeriesValues(n) : n \in 1..MaxSeriesLen}
    \cup PatternSeries \cup SineWaves \cup ShortSeries \cup LongSeries
    \cup {Scaled(y, c) : y \in TrendSeriesValues, c \in 1..MaxScale}
    \cup PeakTieSeries \cup VarianceTieSeries \cup TiedSeries

Listed(values) ==
    \/ values \in ModelSeries
    \/ /\ StrengthTieScale(values) # 0
       /\ OddPart(StrengthTieScale(values)) < MaxOddPart

\* the facts of the detector that are open on a series: a lag whose
\* autocorrelation is exactly 3/10, two neighbouring lags whose
\* autocorrelations are the same fraction, a candidate whose mean bucket
\* variance is exactly 0.8 of the variance
DetectorTies(values) ==
    LET n == Len(values)
        lags == 1..(Min2(MaxLagCap, n \div 2) - 1)
        ac(lag) == autocorrelation(values, lag, NoFloatTies)
        varies == VarNum(values) # 0
    IN  {<<"lag", lag>> : lag \in {x \in lags : AboveThreshold(ac(x), x, {<<"lag", x>>})
                                                /\ ~AboveThreshold(ac(x), x, NoFloatTies)}}
        \cup {<<kind, lag>> : kind \in {"lag_up", "lag_down"},
                              lag \in {x \in lags : /\ varies
                                                    /\ x + 1 \in lags
                                                    /\ SameFraction(ac(x), ac(x + 1))}}
        \cup {<<"period", p>> :
                 p \in {x \in Range(common_periods) :
                          is_valid_seasonal_period(values, x, {<<"period", x>>})
                          # is_valid_seasonal_period(values, x, NoFloatTies)}}

\* the facts of the labels that are open: a period whose seasonal_ratio is
\* exactly 0.5 or 0.2, a slope that is exactly a tenth or a twentieth of
\* np.std(y)
LabelTies(values) ==
    {<<"ratio", p>> :
        p \in {x \in 1..Len(values) :
                 calculate_seasonal_strength(values, x, {<<"ratio", x>>})
                 # calculate_seasonal_strength(values, x, NoFloatTies)}}
    \cup {<<"strength", percent>> :
             percent \in {x \in {5, 10} :
                            /\ Len(values) > 1
                            /\ VarNum(values) # 0
                            /\ LET slope == least_squares_slope(values)
                                   slope_sq == RatMul(slope, slope)
                                   var_y == StdSq(AsFloats(values))
                               IN  RatMul(RatInt((100 \div x) * (100 \div x)), slope_sq)
                                   = var_y}}

\* the subsets of a set of facts that hold at most one fact of a tie
Consistent(facts) ==
    {T \in SUBSET facts :
        \A f \in T :
            /\ f[1] = "lag_up" => <<"lag_down", f[2]>> \notin T
            /\ f[1] = "phase_short" => <<"phase_over", f[2]>> \notin T
            /\ f[1] = "trend_above" => <<"trend_below", f[2]>> \notin T}

\* the facts of decomposition that are open, for every period the detector
\* may find: a phase whose mean is a whole number other than 0 (below or
\* beyond it; beyond it matters for the mean -1 of a float array only), an
\* entry of the trend that is 0 though a value under its window is not
DecompositionTies(values) ==
    LET n == Len(values)
        window == Min2(7, n \div 4)
        offset == (window - 1) \div 2
        found == Consistent(DetectorTies(values))
        seasonal(dtype, model, T) == decomposition_parts(values, 1, dtype, model, T)
    IN  IF n < MinDecomposePoints THEN NoFloatTies
        ELSE {<<"phase_short", i>> :
                 i \in {x \in 0..(n - 1) :
                          \E T \in found :
                             seasonal("number", "additive", T \cup {<<"phase_short", x>>}).seasonal
                             # seasonal("number", "additive", T).seasonal}}
             \cup {<<"phase_over", i>> :
                      i \in {x \in 0..(n - 1) :
                               \E T \in found :
                                  seasonal("real", "multiplicative",
                                           T \cup {<<"phase_over", x>>}).residual
                                  # seasonal("real", "multiplicative", T).residual}}
             \cup TrendTies({k \in 1..n :
                               /\ IsZero(ConvolveSame(values, window)[k])
                               /\ \E j \in 1..window :
                                     /\ k + offset - window + j \in 1..n
                                     /\ values[k + offset - window + j] # 0})

\* Series that are not listed, one for each kind of tie of the fractions:
\* a phase of mean -1, a seasonal_ratio of 0.5 with period 4, an
\* autocorrelation of 3/10 at lag 3 and a slope of a tenth of np.std(y).
\* The tables below hold them under every outcome.
UnlistedSeasons ==
    {<<0, 2, 7, 0, 2, 7, 0, 2, 7, 0, 2, 7>>, <<1, 3, 1, 1, 0, 1, 0, 0, 1, 2, 1, 1>>}
UnlistedPeak == <<0, 0, 2, 1, 1, 2, 1, 0, 2, 0>>
UnlistedSlope == Scaled(StrengthTieBase, 223)

\* every place where the fractions of a series of whole numbers tie
OpenTies(values) ==
    DetectorTies(values) \cup LabelTies(values) \cup DecompositionTies(values)

\* What the doubles may do on a series of whole numbers: its listed facts
\* with any choice of those the build decides or, for a series that is
\* not listed, any consistent choice among its ties.
FloatOutcomes(values) ==
    IF Listed(values)
    THEN {DoubleTies(values) \cup T : T \in Consistent(BuildTies(values))}
    ELSE Consistent(OpenTies(values))

\* The lengths m for which np.mean of m equal values c/10 is a double next
\* to c/10 and not c/10 itself: the pairwise sum of m copies of
\* 0.1 = 0x1.999999999999ap-4 or of 0.7 rounds, that of 0.5 does not.
NoisyMeans(c) ==
    CASE c = 1 -> {3, 6, 7, 12, 13, 14}
      [] c = 5 -> {}
      [] c = 7 -> {3, 6, 7, 11, 12}

\* What the doubles do on the series of n values c/10, for the series of
\* TenthsSeries and SeasonTenths.  On seven values 0.1
\* n * sum_xy = 14.700000000000001 and sum_x * sum_y = 14.7: the slope is
\* 9.1e-18, ss_res is 19/7 of ss_tot and abs(slope) is above a tenth of
\* np.std(y) = 1.4e-17.  On five values 0.7 the slope is -1.4e-16 and
\* np.std(y) is 0.
TenthsTies(values) ==
    LET n == Len(values)
        c == values[1]
    IN  {<<"mean", m>> : m \in {k \in NoisyMeans(c) : k <= n}}
        \cup (IF c = 1 /\ n = 7
              THEN {<<"slope", 1>>, <<"ss_res", 19>>, <<"strength", 10>>}
              ELSE IF c = 7 /\ n = 5 THEN {<<"slope", -1>>, <<"strength", 10>>}
              ELSE {})

(***************************************************************************)
(* The numeric results on short series.  A series table has a datetime     *)
(* column "date" and a column "a", no cell missing.  Its dates follow one  *)
(* of four patterns.  Its values are integers, any sequence over           *)
(* 0..MaxValue or a ramp 10 + b*i, or they are floats, the same number of  *)
(* tenths in every row, on evenly spaced dates:                            *)
(*   "even"     1, 2, 3, ...      evenly spaced, ascending                 *)
(*   "reversed" n, n-1, ..., 1    evenly spaced, descending                *)
(*   "paired"   1, 1, 2, 2, ...   every timestamp but the last twice       *)
(*   "late"     1, 2, ..., n-1, n+1   the last sample one step late        *)
(***************************************************************************)
MaxLag == 2

SeriesKinds == {"even", "reversed", "paired", "late"}

SeriesTime(kind, n, i) ==
    CASE kind = "even"     -> i
      [] kind = "reversed" -> n + 1 - i
      [] kind = "paired"   -> (i + 1) \div 2
      [] OTHER             -> IF i = n THEN n + 1 ELSE i

\* the values of a float column "a", in tenths: [0.1] * 2, [0.1] * 3,
\* [0.5] * 3, [0.7] * 5 and [0.1] * 7
TenthsSeries ==
    {[i \in 1..shape[2] |-> shape[1]] :
        shape \in {<<1, 2>>, <<1, 3>>, <<5, 3>>, <<7, 5>>, <<1, 7>>}}

\* the table of a series under the facts ties of its doubles
MkSeries(kind, values, ties) ==
    [columns |-> <<"date", "a">>,
     dtype   |-> [c \in {"date", "a"} |-> ColumnDType(c)],
     nrows   |-> Len(values),
     cells   |-> [c \in {"date", "a"} |->
                    [i \in 1..Len(values) |->
                        IF c = "date" THEN <<SeriesTime(kind, Len(values), i)>>
                        ELSE <<values[i]>>]],
     tie_rank |-> KeptOrder(Len(values)),
     float_ties |-> ties,
     unit |-> 1]

\* a series table under every outcome of its doubles
SeriesOutcomes(kind, values) ==
    {MkSeries(kind, values, ties) : ties \in FloatOutcomes(values)}

\* the table of a float column "a" of tenths
MkTenths(values) ==
    [MkSeries("even", values, TenthsTies(values)) EXCEPT !.dtype["a"] = "real",
                                                         !.unit = 10]

\* the orders a sort may leave the rows of a paired table in: either row
\* of a pair first, pair by pair
PairRanks(n) ==
    {rank \in [1..n -> 1..n] :
        /\ \A i, j \in 1..n : rank[i] = rank[j] => i = j
        /\ \A i \in 1..n : (rank[i] + 1) \div 2 = (i + 1) \div 2}

\* the paired tables repeat every date, so they come under every such order
SeriesTables ==
    UNION {UNION {SeriesOutcomes(kind, values) :
                     kind \in SeriesKinds, values \in SeriesValues(n)}
           \cup {Reordered(table, rank) :
                    table \in UNION {SeriesOutcomes("paired", values) :
                                        values \in SeriesValues(n)},
                    rank \in PairRanks(n)} :
            n \in 1..MaxSeriesLen}
    \cup {MkTenths(values) : values \in TenthsSeries}

\* the analyzer after set_data(table) on a series table
SeriesInit ==
    /\ data \in SeriesTables
    /\ time_column = new_time_column(data, None)
    /\ value_columns = new_value_columns(data, new_time_column(data, None), NoneList)
    /\ call = [op |-> "init"]
    /\ result = ReturnNone

TrendSeries ==
    /\ call' = [op |-> "trend_analysis", column |-> "a"]
    /\ result' = trend_analysis_full(data, time_column, value_columns, "a")
    /\ UNCHANGED <<data, time_column, value_columns>>

ForecastSeries(periods, method) ==
    /\ call' = [op |-> "forecasting", column |-> "a", periods |-> periods,
                method |-> method]
    /\ result' = forecasting_full(data, time_column, "a", periods, method)
    /\ UNCHANGED <<data, time_column, value_columns>>

\* _autocorrelation on the values of "a" in time order
Autocorrelation(lag) ==
    /\ call' = [op |-> "autocorrelation", column |-> "a", lag |-> lag]
    /\ result' = autocorrelation_call(series_values(data, time_column, "a"), lag,
                                      data.float_ties)
    /\ UNCHANGED <<data, time_column, value_columns>>

SeriesNext ==
    \/ TrendSeries
    \/ \E periods \in 1..MaxHorizon, method \in ForecastMethods :
          ForecastSeries(periods, method)
    \/ \E lag \in 0..MaxLag : Autocorrelation(lag)

SeriesSpec == SeriesInit /\ [][SeriesNext]_vars

\* the timestamps of the rows the analysis uses
ObservedTimes(t, tc, col) ==
    {TimeOf(t, tc, i) : i \in Range(CompleteRows(t, tc, col))}

\* the intervals between consecutive timestamps, in time order
SortedIntervals(t, tc, col) ==
    LET rows == sort_values(t, tc, CompleteRows(t, tc, col))
    IN  Diffs([k \in 1..Len(rows) |-> TimeOf(t, tc, rows[k])])

\* the latest observed timestamp
LastObserved(t, tc, col) ==
    CHOOSE x \in ObservedTimes(t, tc, col) : \A y \in ObservedTimes(t, tc, col) : y <= x

(***************************************************************************)
(* C11 (as stated): a successful forecast of horizon h returns h future    *)
(* timestamps, h predicted values and h error estimates; the k-th future   *)
(* timestamp is the last observed timestamp plus k times the modal         *)
(* interval of the time-sorted series; and every future timestamp is       *)
(* strictly later than every observed timestamp.                           *)
(***************************************************************************)
C11_FutureTimesStrictlyLater ==
    (call.op = "forecasting" /\ result.success) =>
        /\ Len(result.future_times) = call.periods
        /\ Len(result.forecast_values) = call.periods
        /\ Len(result.forecast_errors) = call.periods
        /\ \A k \in 1..call.periods :
              /\ result.future_times[k] =
                     LastObserved(data, time_column, call.column)
                     + k * Mode(SortedIntervals(data, time_column, call.column))
              /\ \A x \in ObservedTimes(data, time_column, call.column) :
                     result.future_times[k] > x

\* the population variance of a float array: mean of squares less the
\* square of the mean
PopVariance(s) ==
    RatSub(RatMean([k \in 1..Len(s) |-> RatMul(s[k], s[k])]),
           RatMul(RatMean(s), RatMean(s)))

\* the dates of the series are evenly spaced, d apart
EvenlySpaced(t, tc, col, d) == \A x \in Range(SortedIntervals(t, tc, col)) : x = d

(***************************************************************************)
(* C12: a successful linear forecast continues the least-squares line      *)
(* that trend_analysis reports for the same series: with n points, slope   *)
(* s and intercept c, the k-th predicted value (k = 0..h-1) is             *)
(* c + s*(n+k), and every error estimate is the population standard        *)
(* deviation of the in-sample residuals (compared as squares).  On the     *)
(* evenly spaced series 10, 12, 14, 16 with horizon 2 the predicted values *)
(* are 18 and 20, the error is 0 and the future timestamps continue at the *)
(* observed interval.  Slope and intercept are the reported floats; a      *)
(* reported slope that is rounding noise moves the line by such noise.     *)
(***************************************************************************)
C12_LinearForecastContinuesTrendLine ==
    (call.op = "forecasting" /\ call.method = "linear" /\ result.success) =>
        LET y == series_values(data, time_column, call.column)
            n == Len(y)
            fit == trend_fit(y, data.float_ties)
            s == InUnits(fit.slope, data.unit)
            c == InUnits(fit.intercept, data.unit)
            line(x) == IF s[2] = 0 THEN c ELSE RatAdd(c, RatMul(s, RatInt(x)))
            in_sample == [i \in 1..n |->
                            RatSub(Rat(y[i], data.unit), line(i - 1))]
        IN  /\ \A k \in 0..(call.periods - 1) :
                  /\ result.forecast_values[k + 1] = line(n + k)
                  /\ result.forecast_errors[k + 1] = PopVariance(in_sample)
            /\ (/\ y = <<10, 12, 14, 16>>
                /\ call.periods = 2
                /\ EvenlySpaced(data, time_column, call.column, 1)) =>
                  /\ result.forecast_values = <<RatInt(18), RatInt(20)>>
                  /\ result.forecast_errors = <<RatInt(0), RatInt(0)>>
                  /\ result.future_times =
                         <<LastObserved(data, time_column, call.column) + 1,
                           LastObserved(data, time_column, call.column) + 2>>

\* the linear forecast of horizon 2 on 10, 12, 14, 16 at evenly spaced dates
C12_Witness ==
    /\ call.op = "forecasting"
    /\ call.method = "linear"
    /\ call.periods = 2
    /\ result.success
    /\ series_values(data, time_column, "a") = <<10, 12, 14, 16>>
    /\ EvenlySpaced(data, time_column, "a", 1)
    /\ result.forecast_values = <<RatInt(18), RatInt(20)>>

(***************************************************************************)
(* The seasonal results on longer series.  A season table has a datetime   *)
(* column "date", an integer column "a" and a float column "x" holding the *)
(* same values as "a", no cell missing.  Its values repeat a pattern or    *)
(* sample a sine wave:                                                     *)
(*   "alt"  5, 9, 5, 9, ...        "tri"  2, 8, 3, 2, 8, 3, ...            *)
(*   "flat" 4, 4, 4, ...           "ramp" 0, 1, 2, ...                     *)
(*   sine   base + amplitude * sin(2*pi*i/P), rounded to a whole number,   *)
(*          for P = 7 and P = 12, amplitude 10 or -10                      *)
(* Pattern tables have 10..MaxSeasonLen rows, a sine table of period P has *)
(* 2*P..2*P+MaxExtra rows.  The dates ascend; a pattern table also comes   *)
(* with descending dates ("reversed").  Ten twelve-point series on which   *)
(* the rounding of the doubles decides a result come with them, and three  *)
(* tables whose columns "a" and "x" are both float columns holding the     *)
(* same number of tenths in every row: [0.1] * 12, [0.1] * 14, [0.7] * 14. *)
(* A series of whole numbers comes with one table for every outcome of its *)
(* doubles.                                                                *)
(***************************************************************************)
MaxSeasonPeriod == 12

\* the table of a series under the facts ties of its doubles
MkSeason(values, reversed, ties) ==
    [columns |-> <<"date", "a", "x">>,
     dtype   |-> [c \in {"date", "a", "x"} |-> ColumnDType(c)],
     nrows   |-> Len(values),
     cells   |-> [c \in {"date", "a", "x"} |->
                    [i \in 1..Len(values) |->
                        IF c = "date"
                        THEN <<IF reversed THEN Len(values) + 1 - i ELSE i>>
                        ELSE <<IF reversed THEN values[Len(values) + 1 - i]
                               ELSE values[i]>>]],
     tie_rank |-> KeptOrder(Len(values)),
     float_ties |-> ties,
     unit |-> 1]

\* a season table under every outcome of its doubles
SeasonOutcomes(values, reversed) ==
    {MkSeason(values, reversed, ties) : ties \in FloatOutcomes(values)}

\* the constant float series [0.1] * 12, [0.1] * 14 and [0.7] * 14, in
\* tenths
SeasonTenths ==
    {[i \in 1..shape[2] |-> shape[1]] : shape \in {<<1, 12>>, <<1, 14>>, <<7, 14>>}}

\* the season table of a float series of tenths, in both value columns
MkSeasonTenths(values) ==
    [MkSeason(values, FALSE, TenthsTies(values)) EXCEPT !.dtype["a"] = "real",
                                                        !.unit = 10]

SeasonTables ==
    UNION {SeasonOutcomes(values, reversed) :
              values \in PatternSeries, reversed \in BOOLEAN}
    \cup UNION {SeasonOutcomes(values, FALSE) :
                    values \in SineWaves \cup TiedSeries \cup UnlistedSeasons}
    \cup {MkSeasonTenths(values) : values \in SeasonTenths}

\* the analyzer after set_data(table) on a season table
SeasonInit ==
    /\ data \in SeasonTables
    /\ time_column = new_time_column(data, None)
    /\ value_columns = new_value_columns(data, new_time_column(data, None), NoneList)
    /\ call = [op |-> "init"]
    /\ result = ReturnNone

SeasonalSeries(period) ==
    /\ call' = [op |-> "seasonal_analysis", column |-> "a", period |-> period]
    /\ result' = seasonal_analysis_full(data, time_column, "a", period)
    /\ UNCHANGED <<data, time_column, value_columns>>

DecomposeSeries(column, model) ==
    /\ call' = [op |-> "decomposition", column |-> column, model |-> model]
    /\ result' = decomposition_full(data, time_column, column, model)
    /\ UNCHANGED <<data, time_column, value_columns>>

\* _detect_seasonal_period on the values of "a" in time order
DetectPeriod ==
    /\ call' = [op |-> "detect_seasonal_period", column |-> "a"]
    /\ result' = [period |-> detect_seasonal_period(series_values(data, time_column, "a"),
                                                  data.float_ties)]
    /\ UNCHANGED <<data, time_column, value_columns>>

SeasonNext ==
    \/ \E period \in {NoInt} \cup {<<p>> : p \in 1..MaxSeasonPeriod} : SeasonalSeries(period)
    \/ \E column \in {"a", "x"}, model \in {"additive", "multiplicative"} :
          DecomposeSeries(column, model)
    \/ DetectPeriod

SeasonSpec == SeasonInit /\ [][SeasonNext]_vars

(***************************************************************************)
(* C13: a successful additive decomposition returns trend, seasonal and    *)
(* residual of the length of the time-sorted series, and at every index    *)
(* trend + seasonal + residual is the original value; with or without a    *)
(* detected period, on integer and on float columns.                       *)
(***************************************************************************)
C13_AdditivePartsSumToOriginal ==
    (call.op = "decomposition" /\ call.model = "additive" /\ result.success) =>
        LET original == series_values(data, time_column, call.column)
            n == Len(original)
        IN  /\ result.original = [i \in 1..n |-> AsFloat(data, original[i])]
            /\ Len(result.trend) = n
            /\ Len(result.seasonal) = n
            /\ Len(result.residual) = n
            /\ \A i \in 1..n :
                  RatAdd(RatAdd(result.trend[i], result.seasonal[i]), result.residual[i])
                      = Rat(original[i], data.unit)

\* an additive decomposition of an integer column with a detected period
\* and a seasonal component that is not all zero
C13_Witness ==
    /\ call.op = "decomposition"
    /\ call.model = "additive"
    /\ call.column = "a"
    /\ result.success
    /\ result.period # NoInt
    /\ \E i \in 1..Len(result.seasonal) : result.seasonal[i] # RatInt(0)
    /\ \E i \in 1..Len(result.residual) : result.residual[i] # RatInt(0)

\* the values are exactly y[1] + b*i for i = 0..n-1, with n >= 2 and b # 0
IsSlopedLine(y) ==
    /\ Len(y) >= 2
    /\ y[2] # y[1]
    /\ \A i \in 1..Len(y) : y[i] = y[1] + (y[2] - y[1]) * (i - 1)

(***************************************************************************)
(* C14: on a series whose time-sorted values are exactly a + b*i           *)
(* (i = 0..n-1, n >= 2, b # 0) trend_analysis reports slope b, intercept   *)
(* a, r_squared 1, direction increasing for b > 0 and decreasing for       *)
(* b < 0, data_points n, start_value a and end_value a + b*(n-1); on       *)
(* 10, 12, 14, 16 that is slope 2, intercept 10, r_squared 1, increasing,  *)
(* and the strength is strong.                                             *)
(***************************************************************************)
C14_ExactLineIsRecovered ==
    (/\ call.op = "trend_analysis"
     /\ IsSlopedLine(series_values(data, time_column, call.column))) =>
        LET y == series_values(data, time_column, call.column)
            n == Len(y)
            a == y[1]
            b == y[2] - y[1]
        IN  /\ result.success
            /\ Len(result.trend_analysis) = 1
            /\ result.trend_analysis[1].column = call.column
            /\ result.trend_analysis[1].slope = RatInt(b)
            /\ result.trend_analysis[1].intercept = RatInt(a)
            /\ result.trend_analysis[1].r_squared = RatInt(1)
            /\ result.trend_analysis[1].trend_direction =
                   (IF b > 0 THEN "increasing" ELSE "decreasing")
            /\ result.trend_analysis[1].data_points = n
            /\ result.trend_analysis[1].start_value = a
            /\ result.trend_analysis[1].end_value = a + b * (n - 1)
            /\ y = <<10, 12, 14, 16>> =>
                  /\ result.trend_analysis[1].slope = RatInt(2)
                  /\ result.trend_analysis[1].intercept = RatInt(10)
                  /\ result.trend_analysis[1].trend_strength = "strong"

\* the trend of 10, 12, 14, 16
C14_Witness ==
    /\ call.op = "trend_analysis"
    /\ series_values(data, time_column, "a") = <<10, 12, 14, 16>>
    /\ result.success
    /\ result.trend_analysis[1].slope = RatInt(2)
    /\ result.trend_analysis[1].trend_direction = "increasing"
    /\ result.trend_analysis[1].trend_strength = "strong"

\* at least 2 values, all equal
IsConstant(y) == Len(y) >= 2 /\ \A i \in 1..Len(y) : y[i] = y[1]

(***************************************************************************)
(* C15 (as stated): on a series of at least 2 points whose values are all  *)
(* equal, trend_analysis succeeds and reports slope 0, r_squared 0 and     *)
(* direction stable (no division by zero shows in the result).             *)
(***************************************************************************)
C15_ConstantSeriesIsStable ==
    (/\ call.op = "trend_analysis"
     /\ IsConstant(series_values(data, time_column, call.column))) =>
        /\ result.success
        /\ Len(result.trend_analysis) = 1
        /\ result.trend_analysis[1].slope = RatInt(0)
        /\ result.trend_analysis[1].r_squared = RatInt(0)
        /\ result.trend_analysis[1].trend_direction = "stable"

(***************************************************************************)
(* C16 (as stated): for values of variance greater than 0,                 *)
(* autocorrelation(values, 0) does not fail and returns 1: the lag-0       *)
(* numerator equals the denominator.                                       *)
(***************************************************************************)
C16_LagZeroIsOne ==
    (/\ call.op = "autocorrelation"
     /\ call.lag = 0
     /\ VarNum(series_values(data, time_column, call.column)) > 0) =>
        /\ ~Raised(result)
        /\ result.value[2] # 0
        /\ result.value[1] = result.value[2]

\* the values sample base + amplitude * sin(2*pi*i/P) at i = 0, 1, ...,
\* rounded to whole numbers, over at least two periods
IsSineWave(values, P) ==
    /\ Len(values) >= 2 * P
    /\ \E base \in SineBases, sign \in {-1, 1} :
          values = SineSeries(base, sign, P, Len(values))

(***************************************************************************)
(* C17: on a series sampling base + amplitude * sin(2*pi*i/P) (amplitude   *)
(* not 0, rounded to whole numbers) with P = 7 or P = 12 and at least 2*P  *)
(* points, the period detector returns exactly P and takes it from the     *)
(* fixed candidate list; for P = 12 the earlier candidate 7 is not         *)
(* accepted.                                                               *)
(***************************************************************************)
C17_SinePeriodRecovered ==
    \A P \in {7, 12} :
        (/\ call.op = "detect_seasonal_period"
         /\ IsSineWave(series_values(data, time_column, call.column), P)) =>
            LET values == series_values(data, time_column, call.column)
            IN  /\ result.period = <<P>>
                /\ FirstCommon(values, 1, data.float_ties) = <<P>>
                /\ P = 12 => ~is_valid_seasonal_period(values, 7, data.float_ties)

\* a sine wave of period 12, long enough for candidate 7 to be tried first,
\* detected as 12
C17_Witness ==
    /\ call.op = "detect_seasonal_period"
    /\ IsSineWave(series_values(data, time_column, "a"), 12)
    /\ Len(series_values(data, time_column, "a")) > 2 * 12
    /\ result.period = <<12>>

\* the mean of the w values of y ending at position last
MeanOfWindow(y, last, w) == Rat(SumSeq(SubSeq(y, last - w + 1, last)), w)

(***************************************************************************)
(* C18: a moving_average forecast on n points uses the window              *)
(* w = min(3, n).  With fewer than 3 points it fails with "Insufficient    *)
(* data for forecasting".  Otherwise every horizon step carries the same   *)
(* predicted value, the mean of the last w values of the time-sorted       *)
(* series, and the same error, the population standard deviation (compared *)
(* as squares) of the differences between the values from index w-1 on     *)
(* and the w-point moving averages; three equal values forecast that value *)
(* with error 0.  The values are the floats of the column.                 *)
(***************************************************************************)
C18_MovingAverageForecast ==
    (call.op = "forecasting" /\ call.method = "moving_average") =>
        LET y == series_values(data, time_column, call.column)
            n == Len(y)
            w == Min2(3, n)
            mean(last) == InUnits(MeanOfWindow(y, last, w), data.unit)
            differences == [j \in 1..(n - w + 1) |->
                              RatSub(Rat(y[w - 1 + j], data.unit), mean(w - 1 + j))]
        IN  IF n < 3 THEN result = Failure("Insufficient data for forecasting")
            ELSE /\ result.success
                 /\ Len(result.forecast_values) = call.periods
                 /\ Len(result.forecast_errors) = call.periods
                 /\ \A k \in 1..call.periods :
                       /\ result.forecast_values[k] = mean(n)
                       /\ result.forecast_errors[k] = PopVariance(differences)
                 /\ (n = 3 /\ IsConstant(y)) =>
                       \A k \in 1..call.periods :
                           /\ result.forecast_values[k] = Rat(y[1], data.unit)
                           /\ result.forecast_errors[k] = RatInt(0)

\* a moving_average forecast on more points than the window, with an error
\* that is not 0
C18_Witness ==
    /\ call.op = "forecasting"
    /\ call.method = "moving_average"
    /\ result.success
    /\ Len(series_values(data, time_column, "a")) > 3
    /\ result.forecast_errors[1] # RatInt(0)

\* the positions i, i+p, i+2p, ... of phase i in a series of n points,
\* counted from 0
PhaseIndices(n, i, p) == {j \in 0..(n - 1) : j % p = i}

\* the mean of the values of y at a non-empty set of positions counted from 0
MeanAt(y, positions) ==
    Rat(SumSeq([k \in 1..Len(y) |-> IF (k - 1) \in positions THEN y[k] ELSE 0]),
        Cardinality(positions))

(***************************************************************************)
(* C19 (as stated): a successful seasonal_analysis with period p, whether  *)
(* p is at most or larger than the number of points, carries one {mean,    *)
(* std, count} entry for each phase 0..p-1 and a seasonal_pattern of       *)
(* exactly p means in phase order, phase i covering the positions i, i+p,  *)
(* i+2p, ... of the time-sorted series; the counts add up to the number    *)
(* of points.                                                              *)
(***************************************************************************)
C19_OneEntryPerPhase ==
    (call.op = "seasonal_analysis" /\ result.success) =>
        LET y == series_values(data, time_column, call.column)
            n == Len(y)
            p == result.period[1]
        IN  /\ Len(result.seasonal_components) = p
            /\ Len(result.seasonal_pattern) = p
            /\ \A i \in 0..(p - 1) :
                  /\ result.seasonal_components[i + 1].season = i
                  /\ result.seasonal_components[i + 1].count =
                         Cardinality(PhaseIndices(n, i, p))
                  /\ result.seasonal_components[i + 1].mean =
                         MeanAt(y, PhaseIndices(n, i, p))
                  /\ result.seasonal_pattern[i + 1] = MeanAt(y, PhaseIndices(n, i, p))
            /\ SumSeq([k \in 1..p |-> result.seasonal_components[k].count]) = n

(***************************************************************************)
(* The column classifier on small tables.  A classifier table has up to    *)
(* MaxCols columns with different labels, in any order, and 0..SmallRows   *)
(* rows, no cell missing:                                                  *)
(*   "date"  datetime column                                               *)
(*   "when"  text column of date strings                                   *)
(*   "mixed" text column, a date string first and names below              *)
(*   "name"  text column of names                                          *)
(*   "a"     integer column                                                *)
(*   "b"     integer column                                                *)
(***************************************************************************)
MaxCols == 2

ClassifyLabels == {"date", "when", "mixed", "name", "a", "b"}

ClassifyCell(c, i) ==
    CASE c = "date"  -> <<i>>
      [] c = "when"  -> IF i % 2 = 1 THEN <<"2024-01-02">> ELSE <<"2024-01-10">>
      [] c = "mixed" -> IF i = 1 THEN <<"2024-01-02">> ELSE <<"bob">>
      [] c = "a"     -> <<10 + 2 * i>>
      [] c = "b"     -> <<i>>
      [] OTHER       -> IF i % 2 = 1 THEN <<"alice">> ELSE <<"bob">>

\* the orderings of up to MaxCols different labels
ClassifyColumns ==
    UNION {{cols \in [1..k -> ClassifyLabels] :
               \A i, j \in 1..k : i # j => cols[i] # cols[j]} : k \in 1..MaxCols}

MkClassify(cols, n) ==
    [columns |-> cols,
     dtype   |-> [c \in Range(cols) |-> ColumnDType(c)],
     nrows   |-> n,
     cells   |-> [c \in Range(cols) |-> [i \in 1..n |-> ClassifyCell(c, i)]],
     tie_rank |-> KeptOrder(n),
     float_ties |-> NoFloatTies,
     unit |-> 1]

ClassifyTables == {MkClassify(cols, n) : cols \in ClassifyColumns, n \in 0..SmallRows}

ClassifyArgs ==
    {<<None, NoneList>>, <<None, <<"a">>>>, <<"name", NoneList>>, <<"a", <<>>>>}

\* the analyzer as constructed (lines 13-16)
ClassifyInit ==
    /\ data = NoTable
    /\ time_column = None
    /\ value_columns = <<>>
    /\ call = [op |-> "init"]
    /\ result = ReturnNone

ClassifyNext ==
    \E t \in ClassifyTables, args \in ClassifyArgs : SetData(t, args[1], args[2])

ClassifySpec == ClassifyInit /\ [][ClassifyNext]_vars

\* the column is timestamp-typed, or each of its values is a text that
\* denotes a timestamp
IsTimestampColumn(t, c) ==
    \/ t.dtype[c] = "datetime"
    \/ \A i \in 1..t.nrows :
          \/ IsNull(t.cells[c][i])
          \/ (t.dtype[c] = "text" /\ ParseDate(Val(t.cells[c][i])) # <<>>)

\* the positions, in table order, of the columns that qualify
TimestampPositions(t) == {k \in 1..Len(t.columns) : IsTimestampColumn(t, t.columns[k])}

(***************************************************************************)
(* C20 (as stated): the classifier returns the first column, in table      *)
(* order, that is timestamp-typed or whose values all parse as timestamps: *)
(* no qualifying column is passed over for a later one, no column with a   *)
(* value that is not a timestamp is chosen, and the result is None exactly *)
(* when no column qualifies.                                               *)
(***************************************************************************)
C20_FirstTimestampColumn ==
    (call.op = "set_data" /\ call.time_column = None) =>
        IF TimestampPositions(data) = {} THEN time_column = None
        ELSE \E k \in TimestampPositions(data) :
                /\ \A j \in TimestampPositions(data) : k <= j
                /\ time_column = data.columns[k]

\* the position of column c in the table
ColumnPosition(t, c) == CHOOSE k \in 1..Len(t.columns) : t.columns[k] = c

\* the columns of the table that hold numbers
NumericColumns(t) == {c \in Range(t.columns) : t.dtype[c] \in {"number", "real"}}

\* the last set_data call left the value columns to auto-detection
AutoDetectedValues ==
    call.op = "set_data" /\ ~TruthyList(call.value_columns) /\ result = ReturnNone

(***************************************************************************)
(* C21: when value columns are auto-detected, value_columns is exactly the *)
(* numeric columns of the table other than the chosen time column, each    *)
(* once and in table order; so the time column is not among them and no    *)
(* non-numeric column is.                                                  *)
(***************************************************************************)
C21_AutoValueColumns ==
    AutoDetectedValues =>
        /\ Range(value_columns) = NumericColumns(data) \ {time_column}
        /\ \A i, j \in 1..Len(value_columns) :
              i < j => ColumnPosition(data, value_columns[i])
                          < ColumnPosition(data, value_columns[j])
        /\ time_column \notin Range(value_columns)
        /\ \A c \in Range(value_columns) : data.dtype[c] # "text"

\* a numeric column was chosen as the time column and is left out of the
\* value columns, which keep the other numeric column
C21_Witness ==
    /\ AutoDetectedValues
    /\ data.columns = <<"a", "b">>
    /\ time_column = "a"
    /\ value_columns = <<"b">>

(***************************************************************************)
(* The series preparation on tables with a text time column.  A table has  *)
(* the columns when, a and up to MaxPrepRows rows; a cell of "when" is     *)
(* missing or one of three day/month strings, a cell of "a" is missing or  *)
(* holds the number of its row, so that a value names the row it is from.  *)
(***************************************************************************)
MaxPrepRows == 3

PrepDates == {"1/2/2024", "1/3/2024", "1/10/2024"}

MkPrep(whens, present) ==
    [columns |-> <<"when", "a">>,
     dtype   |-> [c \in {"when", "a"} |-> ColumnDType(c)],
     nrows   |-> Len(whens),
     cells   |-> [c \in {"when", "a"} |->
                    [i \in 1..Len(whens) |->
                        IF c = "when" THEN whens[i]
                        ELSE IF i \in present THEN <<i>> ELSE Missing]],
     tie_rank |-> KeptOrder(Len(whens)),
     float_ties |-> NoFloatTies,
     unit |-> 1]

\* every order a sort may leave n rows of equal key in
TieRanks(n) == {rank \in [1..n -> 1..n] : \A i, j \in 1..n : rank[i] = rank[j] => i = j}

\* the tables of n rows, under every order of equal keys
PrepTables(n) ==
    {Reordered(MkPrep(whens, present), rank) :
        whens \in [1..n -> {Missing} \cup {<<d>> : d \in PrepDates}],
        present \in SUBSET (1..n),
        rank \in TieRanks(n)}

\* the analyzer after set_data(table) on such a table
PrepInit ==
    /\ \E n \in 0..MaxPrepRows : data \in PrepTables(n)
    /\ time_column = new_time_column(data, None)
    /\ value_columns = new_value_columns(data, new_time_column(data, None), NoneList)
    /\ call = [op |-> "init"]
    /\ result = ReturnNone

\* ts_data = self.data[[time_column, col]].dropna().sort_values(time_column)
\* and ts_data[col].values, as every analysis computes them
PrepareSeries(column) ==
    /\ call' = [op |-> "prepare", column |-> column]
    /\ result' =
          [rows   |-> sort_values(data, time_column,
                                  CompleteRows(data, time_column, column)),
           values |-> series_values(data, time_column, column)]
    /\ UNCHANGED <<data, time_column, value_columns>>

PrepNext == \E column \in {"a"} : PrepareSeries(column)

PrepSpec == PrepInit /\ [][PrepNext]_vars

\* the rows with both a timestamp and a value
RowsWithBoth(t, tc, col) ==
    {i \in 1..t.nrows : t.cells[tc][i] # Missing /\ t.cells[col][i] # Missing}

(***************************************************************************)
(* C22 (as stated): the series an analysis computes on is the rows with    *)
(* both a timestamp and a value, each once, ordered by the timestamps the  *)
(* cells denote (so the last element is the latest observation), rows of   *)
(* equal timestamp in their original relative order.                       *)
(***************************************************************************)
C22_SeriesIsChronological ==
    call.op = "prepare" =>
        LET rows == result.rows
            tc   == time_column
        IN  /\ Range(rows) = RowsWithBoth(data, tc, call.column)
            /\ Len(rows) = Cardinality(RowsWithBoth(data, tc, call.column))
            /\ result.values = [k \in 1..Len(rows) |-> Val(data.cells[call.column][rows[k]])]
            /\ \A i, j \in 1..Len(rows) :
                  i < j =>
                     /\ TimeOf(data, tc, rows[i]) <= TimeOf(data, tc, rows[j])
                     /\ TimeOf(data, tc, rows[i]) = TimeOf(data, tc, rows[j])
                           => rows[i] < rows[j]

(***************************************************************************)
(* The period detector on its own.  A detector table is a season table     *)
(* (date, a, x; ascending dates) whose values are                          *)
(*   every sequence of 0s and 1s of 8..MaxDetectLen points, too short for  *)
(*   any fixed candidate, or                                               *)
(*   a ramp 0, 1, 2, ... or a rounded sine of period 7 or 12, of twice 7   *)
(*   or twice 12 points, or                                                *)
(*   one of the series of VarianceTieSeries, or                            *)
(*   the ten-point series UnlistedPeak.                                    *)
(***************************************************************************)
DetectTables ==
    UNION {SeasonOutcomes(values, FALSE) :
              values \in ShortSeries \cup LongSeries \cup VarianceTieSeries
                         \cup {UnlistedPeak}}

DetectInit ==
    /\ data \in DetectTables
    /\ time_column = new_time_column(data, None)
    /\ value_columns = new_value_columns(data, new_time_column(data, None), NoneList)
    /\ call = [op |-> "init"]
    /\ result = ReturnNone

DetectNext == DetectPeriod

DetectSpec == DetectInit /\ [][DetectNext]_vars

\* the series the detector was called on
DetectedSeries == series_values(data, time_column, "a")

\* the mean, over the p phase buckets, of the variance within the bucket
MeanBucketVariance(values, p) ==
    RatMean([k \in 1..p |-> Variance(PhaseValues(values, k - 1, p))])

\* the test of a fixed candidate p: enough points, and the mean bucket
\* variance strictly below 80% of the variance of the whole series
PassesCandidateTest(values, p) ==
    /\ Len(values) >= 2 * p
    /\ RatLT(MeanBucketVariance(values, p), RatMul(<<4, 5>>, Variance(values)))

\* what the scan of lines 287-297 returns for the series
ScanResult(values, ties) ==
    FirstPeak([lag \in 1..(Min2(MaxLagCap, Len(values) \div 2) - 1) |->
                  autocorrelation(values, lag, ties)], 1, ties)

\* the positions, in the candidate list, of the candidates that pass
PassingCandidates(values) ==
    {k \in 1..Len(common_periods) : PassesCandidateTest(values, common_periods[k])}

(***************************************************************************)
(* C23 (as stated): the detector returns the first of the candidates 7,    *)
(* 12, 24, 30, 365 that has at least 2*p points and a mean bucket variance *)
(* strictly below 80% of the whole variance; no later candidate is         *)
(* returned when an earlier one passes, no candidate with fewer than 2*p   *)
(* points is returned, and when no candidate passes the result is that of  *)
(* the autocorrelation scan.                                               *)
(***************************************************************************)
C23_FirstPassingCandidate ==
    call.op = "detect_seasonal_period" =>
        LET values  == DetectedSeries
            passing == PassingCandidates(values)
        IN  /\ common_periods = <<7, 12, 24, 30, 365>>
            /\ passing # {} =>
                  \E k \in passing :
                     /\ \A j \in passing : k <= j
                     /\ result.period = <<common_periods[k]>>
            /\ \A k \in 1..Len(common_periods) :
                  result.period = <<common_periods[k]>>
                     => Len(values) >= 2 * common_periods[k]
            /\ passing = {} => result.period = ScanResult(values, data.float_ties)

\* the autocorrelation of the series at a lag: the lagged products of the
\* deviations from the mean over the sum of their squares, 1 at lag 0 and
\* 0 for a constant series or a lag of the length or more
AutocorrelationAt(values, lag) ==
    LET n   == Len(values)
        dev == Deviations(values)
        den == SumSeq([i \in 1..n |-> dev[i] * dev[i]])
    IN  IF lag >= n \/ den = 0 THEN <<0, 1>>
        ELSE IF lag = 0 THEN <<1, 1>>
        ELSE Rat(SumSeq([i \in 1..(n - lag) |-> dev[i + lag] * dev[i]]), den)

\* the lags of 1..min(50, n/2) whose autocorrelation is strictly above
\* that of both neighbouring lags and strictly above 0.3
PeakLags(values) ==
    {L \in 1..Min2(50, Len(values) \div 2) :
        /\ RatGT(AutocorrelationAt(values, L), AutocorrelationAt(values, L - 1))
        /\ RatGT(AutocorrelationAt(values, L), AutocorrelationAt(values, L + 1))
        /\ RatGT(AutocorrelationAt(values, L), <<3, 10>>)}

(***************************************************************************)
(* C24 (as stated): when no fixed candidate validates, the detector        *)
(* returns the smallest lag of 1..min(50, n/2) whose autocorrelation is    *)
(* strictly greater than at both neighbouring lags and than 0.3, and it    *)
(* returns none exactly when there is no such lag.                         *)
(***************************************************************************)
C24_SmallestPeakLag ==
    (call.op = "detect_seasonal_period" /\ PassingCandidates(DetectedSeries) = {}) =>
        LET peaks == PeakLags(DetectedSeries)
        IN  IF peaks = {} THEN result.period = NoInt
            ELSE \E L \in peaks :
                    /\ \A M \in peaks : L <= M
                    /\ result.period = <<L>>

\* value minus trend at every index of a successful decomposition
DetrendedOf(values, trend) ==
    [k \in 1..Len(values) |-> RatSub(RatInt(values[k]), trend[k])]

\* the mean of the detrended values at the indices of the phase of index j
\* (j counted from 0) for period p
PhaseMeanOf(detrended, j, p) == RatMean(PhaseValues(detrended, j % p, p))

(***************************************************************************)
(* C25 (as stated): in a decomposition of n points with detected period p, *)
(* the seasonal sequence is all zeros when p is none or p >= n/2, and in   *)
(* every other case, for odd and even n and for integer and real columns,  *)
(* seasonal[j] is the mean of the detrended values at the indices with the *)
(* phase of j; the period reported is the one used.                        *)
(***************************************************************************)
C25_SeasonalIsPhaseMean ==
    (call.op = "decomposition" /\ result.success) =>
        LET values    == series_values(data, time_column, call.column)
            n         == Len(values)
            detrended == DetrendedOf(values, result.trend)
        IN  /\ result.period = detect_seasonal_period(values, data.float_ties)
            /\ IF result.period = NoInt \/ 2 * result.period[1] >= n
               THEN \A j \in 1..n : result.seasonal[j] = RatInt(0)
               ELSE \A j \in 1..n :
                       result.seasonal[j] =
                           PhaseMeanOf(detrended, j - 1, result.period[1])

\* smoothed[0] = values[0], smoothed[i] = 0.3 * values[i] + 0.7 * smoothed[i-1]
\* with nothing rounded, up to position k
RECURSIVE ExactSmoothed(_, _)
ExactSmoothed(values, k) ==
    IF k = 1 THEN <<RatInt(values[1])>>
    ELSE LET before == ExactSmoothed(values, k - 1)
         IN  Append(before,
                    RatAdd(RatMul(<<3, 10>>, RatInt(values[k])),
                           RatMul(<<7, 10>>, before[k - 1])))

(***************************************************************************)
(* C26 (as stated): the exponential forecast smooths without rounding or   *)
(* truncation, on integer as on real columns; every horizon step predicts  *)
(* the last smoothed value, with the population standard deviation of      *)
(* values minus smoothed as its error; a series of equal values forecasts  *)
(* that value with error 0.                                                *)
(***************************************************************************)
C26_ExponentialUnrounded ==
    (call.op = "forecasting" /\ call.method = "exponential" /\ result.success) =>
        LET values   == series_values(data, time_column, call.column)
            n        == Len(values)
            smoothed == ExactSmoothed(values, n)
        IN  /\ result.forecast_values = Full(call.periods, smoothed[n])
            /\ result.forecast_errors =
                  Full(call.periods,
                       StdSq([k \in 1..n |-> RatSub(RatInt(values[k]), smoothed[k])]))
            /\ IsConstant(values) =>
                  /\ result.forecast_values = Full(call.periods, RatInt(values[1]))
                  /\ result.forecast_errors = Full(call.periods, RatInt(0))

(***************************************************************************)
(* The trend classification on series of 0s and 1s of 2..MaxTrendLen       *)
(* points with evenly spaced ascending dates, and on the nine-point series *)
(* whose slope is exactly a tenth of its standard deviation and on 223     *)
(* times that series.                                                      *)
(***************************************************************************)
TrendTables ==
    UNION {SeriesOutcomes("even", values) :
              values \in TrendSeriesValues \cup {StrengthTieBase, UnlistedSlope}}

TrendInit ==
    /\ data \in TrendTables
    /\ time_column = new_time_column(data, None)
    /\ value_columns = new_value_columns(data, new_time_column(data, None), NoneList)
    /\ call = [op |-> "init"]
    /\ result = ReturnNone

TrendNext == TrendSeries

TrendSpec == TrendInit /\ [][TrendNext]_vars

\* x > f * sqrt(v) for x >= 0 and a fraction f >= 0, compared as squares
AboveFractionOfRoot(x, f, v) == RatGT(RatMul(x, x), RatMul(RatMul(f, f), v))

(***************************************************************************)
(* C27 (as stated): direction is increasing, decreasing or stable as the   *)
(* slope is positive, negative or zero; strength is strong when |slope| is *)
(* above 0.10 of the population standard deviation of the values, moderate *)
(* when above 0.05 of it and not above 0.10, weak otherwise; and the       *)
(* series with every value multiplied by a constant c > 0 gets the same    *)
(* direction and the same strength.                                        *)
(***************************************************************************)
C27_DirectionStrengthScaleFree ==
    (call.op = "trend_analysis" /\ result.success) =>
        LET y      == series_values(data, time_column, call.column)
            e      == result.trend_analysis[1]
            mag    == <<Abs(e.slope[1]), e.slope[2]>>
            var    == PopVariance(AsFloats(y))
            strong == AboveFractionOfRoot(mag, <<1, 10>>, var)
            fair   == AboveFractionOfRoot(mag, <<1, 20>>, var)
        IN  /\ e.trend_direction = "increasing" <=> RatGT(e.slope, RatInt(0))
            /\ e.trend_direction = "decreasing" <=> RatLT(e.slope, RatInt(0))
            /\ e.trend_direction = "stable" <=> e.slope = RatInt(0)
            /\ e.trend_strength = "strong" <=> strong
            /\ e.trend_strength = "moderate" <=> (fair /\ ~strong)
            /\ e.trend_strength = "weak" <=> ~fair
            /\ \A c \in 2..MaxScale :
                  \A ties \in FloatOutcomes(Scaled(y, c)) :
                      LET scaled == trend_fit(Scaled(y, c), ties)
                      IN  /\ scaled.trend_direction = e.trend_direction
                          /\ scaled.trend_strength = e.trend_strength

\* v[i] - mean for every value of the series
FromMean(values) ==
    [i \in 1..Len(values) |-> RatSub(RatInt(values[i]), RatMean(AsFloats(values)))]

\* the sum over i of (v[i+lag] - mean) * (v[i] - mean)
LaggedProducts(values, lag) ==
    RatSum([i \in 1..(Len(values) - lag) |->
               RatMul(FromMean(values)[i + lag], FromMean(values)[i])])

\* the sum over all i of (v[i] - mean)^2
SquaredDeviations(values) ==
    RatSum([i \in 1..Len(values) |-> RatMul(FromMean(values)[i], FromMean(values)[i])])

(***************************************************************************)
(* C28 (as stated): for a lag of 1 or more, autocorrelation(values, lag)   *)
(* returns 0 when the lag is the length or more or all values are equal,   *)
(* otherwise the sum of the lagged products of the deviations from the     *)
(* mean divided by the sum of the squared deviations; the value lies in    *)
(* [-1, 1].                                                                *)
(***************************************************************************)
C28_AutocorrelationValue ==
    (call.op = "autocorrelation" /\ call.lag >= 1) =>
        LET values == series_values(data, time_column, call.column)
            n      == Len(values)
        IN  /\ ~Raised(result)
            /\ result.value[2] > 0
            /\ IF call.lag >= n \/ \A i \in 1..n : values[i] = values[1]
               THEN result.value[1] = 0
               ELSE Rat(result.value[1], result.value[2]) =
                        RatDiv(LaggedProducts(values, call.lag),
                               SquaredDeviations(values))
            /\ -result.value[2] <= result.value[1]
            /\ result.value[1] <= result.value[2]

(***************************************************************************)
(* C29 (as stated): a period p returned by the detector for a series of n  *)
(* points has 2 <= p and 2*p <= n, and the series is not constant; so a    *)
(* seasonal_analysis without a caller-supplied period never reports the    *)
(* strength insufficient_data or no_variation and its seasonal_pattern has *)
(* exactly p entries.                                                      *)
(***************************************************************************)
C29_DetectedPeriodBounds ==
    LET values == series_values(data, time_column, "a")
        n      == Len(values)
    IN  /\ (call.op = "detect_seasonal_period" /\ result.period # NoInt) =>
              /\ 2 <= result.period[1]
              /\ 2 * result.period[1] <= n
              /\ \E i \in 1..n : values[i] # values[1]
        /\ (call.op = "seasonal_analysis" /\ call.period = NoInt /\ result.success) =>
              /\ result.period = detect_seasonal_period(values, data.float_ties)
              /\ result.seasonal_strength \notin {"insufficient_data", "no_variation"}
              /\ Len(result.seasonal_pattern) = result.period[1]

(***************************************************************************)
(* set_data statement by statement (lines 20-32) and trend_analysis()      *)
(* read by read (lines 128-152), by two callers of one instance with no    *)
(* lock between them.  Here `call` is the set_data call in progress or     *)
(* last made: its number, its arguments, the statement it is at (pc) and,  *)
(* for each field of the instance, the number of the call that last        *)
(* assigned it (writer; 0 is the constructor).  `result` is the            *)
(* trend_analysis call in progress or last made: the statement it is at    *)
(* (pc), its local variables, for each field the writers of the values it  *)
(* has read (read), whether a statement of set_data ran between its first  *)
(* read and its return (overlapped), and what it returned.                 *)
(***************************************************************************)
MaxCalls == 3

RaceTables == {MkTable("ramp", SmallRows), MkTable("nodate", SmallRows), NoTable}

RaceArgs == {<<None, NoneList>>, <<"date", <<"a">>>>}

\* mutant of set_data_after: set_data returns once time_column is assigned
set_data_after_short(pc) == "returned"

\* the statement that follows the assignment of time_column (lines 22-26)
\* and of value_columns (lines 28-32)
set_data_after(pc) == IF pc = "time_column" THEN "value_columns" ELSE "returned"

NothingRead == [f \in {"data", "time_column", "value_columns"} |-> {}]

\* no trend_analysis call in progress: its locals are dropped
Idle(returned, read, overlapped) ==
    [op |-> "trend_analysis", pc |-> "returned", overlapped |-> overlapped,
     read |-> read, columns_to_analyze |-> <<>>, col |-> 0, frame |-> NoTable,
     selected_by |-> None, trend_results |-> <<>>, returned |-> returned]

RaceInit ==
    /\ data = NoTable
    /\ time_column = None
    /\ value_columns = <<>>
    /\ call = [op |-> "init", id |-> 0, table |-> NoTable, time_column |-> None,
               value_columns |-> NoneList, pc |-> "returned",
               writer |-> [data |-> 0, time_column |-> 0, value_columns |-> 0]]
    /\ result = Idle(ReturnNone, NothingRead, FALSE)

\* a statement of set_data runs: a trend_analysis call in progress has now
\* been overlapped by it
Overlapping == result' = [result EXCEPT !.overlapped = @ \/ result.pc # "returned"]

\* line 20: self.data = data
AssignData(t, tc_arg, vc_arg) ==
    /\ call.pc = "returned"
    /\ call.id < MaxCalls
    /\ data' = t
    /\ call' = [op |-> "set_data", id |-> call.id + 1, table |-> t,
                time_column |-> tc_arg, value_columns |-> vc_arg,
                pc |-> "time_column",
                writer |-> [call.writer EXCEPT !.data = call.id + 1]]
    /\ Overlapping
    /\ UNCHANGED <<time_column, value_columns>>

\* lines 22-26; on data = None the auto-detection raises and the call ends
AssignTimeColumn ==
    /\ call.pc = "time_column"
    /\ IF data = NoTable /\ ~TruthyStr(call.time_column)
       THEN /\ call' = [call EXCEPT !.pc = "returned"]
            /\ UNCHANGED time_column
       ELSE /\ time_column' = new_time_column(data, call.time_column)
            /\ call' = [call EXCEPT !.pc = set_data_after(call.pc),
                                    !.writer.time_column = call.id]
    /\ Overlapping
    /\ UNCHANGED <<data, value_columns>>

\* lines 28-32
AssignValueColumns ==
    /\ call.pc = "value_columns"
    /\ IF data = NoTable /\ ~TruthyList(call.value_columns)
       THEN /\ call' = [call EXCEPT !.pc = "returned"]
            /\ UNCHANGED value_columns
       ELSE /\ value_columns' = new_value_columns(data, time_column, call.value_columns)
            /\ call' = [call EXCEPT !.pc = set_data_after(call.pc),
                                    !.writer.value_columns = call.id]
    /\ Overlapping
    /\ UNCHANGED <<data, time_column>>

\* the call in progress after a read of self.<field>, made while a set_data
\* call is or is not between its statements
Reading(field) ==
    [result EXCEPT !.read[field] = @ \cup {call.writer[field]},
                   !.overlapped = @ \/ call.pc # "returned"]

\* return r, from inside or outside the try block
Return(r, returned) == Idle(returned, r.read, r.overlapped)

\* the loop of line 142 moves on to the next column, or line 201 returns
NextColumn(r, trend_results) ==
    IF r.col < Len(r.columns_to_analyze)
    THEN [r EXCEPT !.pc = "member", !.col = @ + 1, !.frame = NoTable,
                   !.selected_by = None, !.trend_results = trend_results]
    ELSE Return(r, [success |-> TRUE,
                    trend_analysis |-> trend_results,
                    columns_analyzed |-> r.columns_to_analyze])

\* the column the loop is at
LoopColumn == result.columns_to_analyze[result.col]

\* line 128, first operand: self.data is None, the first read of a call
GuardData ==
    /\ result.pc = "returned"
    /\ LET r == Idle(ReturnNone, [NothingRead EXCEPT !.data = {call.writer.data}],
                     call.pc # "returned")
       IN  result' = IF data = NoTable
                     THEN Return(r, Failure("No time column detected"))
                     ELSE [r EXCEPT !.pc = "guard_time"]
    /\ UNCHANGED <<data, time_column, value_columns, call>>

\* line 128, second operand: not self.time_column
GuardTime ==
    /\ result.pc = "guard_time"
    /\ result' = IF ~TruthyStr(time_column)
                 THEN Return(Reading("time_column"), Failure("No time column detected"))
                 ELSE [Reading("time_column") EXCEPT !.pc = "columns"]
    /\ UNCHANGED <<data, time_column, value_columns, call>>

\* lines 132-138 for column = None: columns_to_analyze = self.value_columns
ReadValueColumns ==
    /\ result.pc = "columns"
    /\ result' = IF value_columns = <<>>
                 THEN Return(Reading("value_columns"),
                             Failure("No valid columns to analyze"))
                 ELSE [Reading("value_columns") EXCEPT
                          !.pc = "member", !.col = 1,
                          !.columns_to_analyze = value_columns]
    /\ UNCHANGED <<data, time_column, value_columns, call>>

\* line 143: col not in self.data.columns; None has no attribute columns
Member ==
    /\ result.pc = "member"
    /\ result' = IF data = NoTable
                 THEN Return(Reading("data"), TryExcept(Raise("AttributeError")))
                 ELSE IF ~HasColumn(data, LoopColumn)
                 THEN NextColumn(Reading("data"), result.trend_results)
                 ELSE [Reading("data") EXCEPT !.pc = "select_data"]
    /\ UNCHANGED <<data, time_column, value_columns, call>>

\* line 147 evaluates self.data, then self.time_column
SelectData ==
    /\ result.pc = "select_data"
    /\ result' = [Reading("data") EXCEPT !.pc = "select_time", !.frame = data]
    /\ UNCHANGED <<data, time_column, value_columns, call>>

\* line 147: frame[[self.time_column, col]].dropna() and the test of
\* line 148.  None is not subscriptable; a label that is no column of the
\* frame is a KeyError.
SelectTime ==
    /\ result.pc = "select_time"
    /\ LET r == Reading("time_column")
           frame == result.frame
       IN  result' =
             IF frame = NoTable THEN Return(r, TryExcept(Raise("TypeError")))
             ELSE IF ~HasColumn(frame, time_column) \/ ~HasColumn(frame, LoopColumn)
             THEN Return(r, TryExcept(Raise("KeyError")))
             ELSE IF TooFew(CompleteRows(frame, time_column, LoopColumn), MinTrendPoints)
             THEN NextColumn(r, result.trend_results)
             ELSE [r EXCEPT !.pc = "sort", !.selected_by = time_column]
    /\ UNCHANGED <<data, time_column, value_columns, call>>

\* line 152: ts_data.sort_values(self.time_column) on the two columns
\* selected, then lines 154-199 on the local ts_data.  Twice the same
\* label selected leaves two columns of that label, which sort_values
\* refuses to sort by.
SortSelected ==
    /\ result.pc = "sort"
    /\ LET r == Reading("time_column")
           frame == result.frame
           rows == CompleteRows(frame, result.selected_by, LoopColumn)
           y == ColumnValues(frame, LoopColumn, sort_values(frame, time_column, rows))
       IN  result' =
             IF time_column \notin {result.selected_by, LoopColumn}
             THEN Return(r, TryExcept(Raise("KeyError")))
             ELSE IF result.selected_by = LoopColumn
             THEN Return(r, TryExcept(Raise("ValueError")))
             ELSE IF ~IsNumeric(frame, LoopColumn)
             THEN Return(r, TryExcept(Raise("TypeError")))
             ELSE NextColumn(r, Append(result.trend_results,
                                       [column |-> LoopColumn,
                                        data_points |-> Len(y),
                                        start_value |-> AsFloat(frame, y[1]),
                                        end_value |-> AsFloat(frame, y[Len(y)])]))
    /\ UNCHANGED <<data, time_column, value_columns, call>>

\* trend_analysis() by a second caller, each read a step of its own
AnalyzeAnyTime ==
    \/ GuardData
    \/ GuardTime
    \/ ReadValueColumns
    \/ Member
    \/ SelectData
    \/ SelectTime
    \/ SortSelected

RaceNext ==
    \/ \E t \in RaceTables, args \in RaceArgs : AssignData(t, args[1], args[2])
    \/ AssignTimeColumn
    \/ AssignValueColumns
    \/ AnalyzeAnyTime

RaceSpec == RaceInit /\ [][RaceNext]_vars

\* a trend_analysis call has returned
Returned == result.pc = "returned" /\ result.returned # ReturnNone

\* the latest trend_analysis call ran from its first read to its return
\* with no set_data call in progress: the calls were serialized
Serialized == Returned /\ ~result.overlapped

\* the writers of everything the call read
Sources == UNION {result.read[f] : f \in DOMAIN result.read}

(***************************************************************************)
(* C30: set_data assigns data, time_column and value_columns in separate   *)
(* steps and trend_analysis reads them in separate steps, with no lock.    *)
(* A trend_analysis call that runs from its first read to its return while *)
(* no set_data call is in progress (calls serialized) reads fields that    *)
(* were all assigned by the same set_data call; a call that overlaps a     *)
(* set_data call can read the new table with the time_column or the        *)
(* value_columns of the previous call (C30_Witness,                        *)
(* C30_WitnessStaleValueColumns).                                          *)
(***************************************************************************)
C30_SerializedReadsOneCall ==
    Serialized => Cardinality(Sources) = 1

\* overlapping: the table of one call is read with the time column the
\* call before it assigned, and the analysis fails on the missing column
C30_Witness ==
    /\ Returned
    /\ result.overlapped
    /\ \E k \in 2..MaxCalls :
          /\ result.read.data = {k}
          /\ result.read.time_column = {k - 1}
    /\ result.returned = Failure("KeyError")

\* overlapping: the table and the time column of one call are read with
\* the value_columns the call before it assigned
C30_WitnessStaleValueColumns ==
    /\ Returned
    /\ result.overlapped
    /\ \E k \in 2..MaxCalls :
          /\ result.read.data = {k}
          /\ result.read.time_column = {k}
          /\ result.read.value_columns = {k - 1}

\* overlapping: set_data(None) lands after the test of line 128 and the
\* analysis fails on self.data.columns
C30_WitnessTableGone ==
    /\ Returned
    /\ result.overlapped
    /\ Cardinality(result.read.data) = 2
    /\ result.returned = Failure("AttributeError")

\* a serialized analysis after a second set_data call
C30_WitnessSerialized ==
    /\ Serialized
    /\ Sources = {2}
    /\ result.returned.success

====
